---- MODULE Spec2Model ----
(***************************************************************************)
(* A model of the jarvis conversational host: the LLM stream parser        *)
(* (src/src/core/llm_service.py), the conversation orchestrator            *)
(* (src/src/core/orchestrator.py) and the session gateway                  *)
(* (src/src/handlers/websocket_handler.py).                                *)
(*                                                                         *)
(* Text is a sequence of one-character strings, so that a fragment         *)
(* boundary can fall anywhere, also inside a delimiter.  A JSON document   *)
(* is a short sequence of tokens; json.loads is the table JsonDocs.        *)
(* Python's None content/details is the empty sequence.                    *)
(***************************************************************************)
EXTENDS Integers, Sequences, FiniteSets, TLC

(***************************************************************************)
(* Bounds of the model.                                                    *)
(***************************************************************************)
\* segments (prose or blob) of a model response checked by the parser spec
MaxSegs == 3

\* handle_input calls started in one run
MaxTurns == 2

\* model responses that ask for a tool in one run
MaxHops == 2

\* frames one client sends
MaxFrames == 3

\* calls of coordinator.call_tool made by the caller of the coordinator
MaxCalls == 1

\* how long a call is followed while it waits, in timeouts
MaxWait == 2

\* frames each side sends over the bridge of the auth gateway
MaxRelay == 2

(***************************************************************************)
(* Python string helpers, 0-based like the code.                           *)
(***************************************************************************)
\* s[a:b]
Slice(s, a, b) == SubSeq(s, a + 1, b)

\* s[a:]
SliceFrom(s, a) == SubSeq(s, a + 1, Len(s))

\* does pat occur in s at 0-based position i
OccursAt(s, pat, i) ==
    /\ i + Len(pat) <= Len(s)
    /\ \A j \in 1..Len(pat) : s[i + j] = pat[j]

\* str.find(pat, from): the lowest position >= from where pat occurs, else -1
Find(s, pat, from) ==
    LET hits == {i \in from..(Len(s) - Len(pat)) : OccursAt(s, pat, i)}
    IN  IF hits = {} THEN -1 ELSE CHOOSE i \in hits : \A j \in hits : i <= j

Whitespace == {" ", "\n", "\t"}

RECURSIVE LStrip(_)
LStrip(s) == IF s # <<>> /\ s[1] \in Whitespace THEN LStrip(Tail(s)) ELSE s

RECURSIVE RStrip(_)
RStrip(s) ==
    IF s # <<>> /\ s[Len(s)] \in Whitespace THEN RStrip(SubSeq(s, 1, Len(s) - 1)) ELSE s

\* str.strip()
Strip(s) == RStrip(LStrip(s))

\* the backtick character (a TLA+ string cannot hold one)
BT == "BACKTICK"

(***************************************************************************)
(* Response parts (llm_service.py data classes).                           *)
(***************************************************************************)
TextChunk(c) == [type |-> "TextChunk", content |-> c]

ToolCallIntent(name, args) == [type |-> "ToolCallIntent", tool_name |-> name, arguments |-> args]

ErrorInfo(msg, det) == [type |-> "ErrorInfo", message |-> msg, details |-> det]

EndOfTurn == [type |-> "EndOfTurn"]

ToolResultData(name, res) == [type |-> "ToolResultData", tool_name |-> name, result |-> res]

RePromptContext(m) == [type |-> "RePromptContext", message |-> m]

ChatMessage(r, c, d, n) == [role |-> r, content |-> c, data |-> d, tool_name |-> n]

\* data=None of a user or assistant message
NoData == [kind |-> "none"]

(***************************************************************************)
(* The stream parser, LLMService._parse_stream.                            *)
(***************************************************************************)
tool_start_delimiter == <<BT, BT, BT, "t", "o", "o", "l", "\n">>

tool_end_delimiter == <<"\n", BT, BT, BT>>

\* JSON documents the model may write between the delimiters, with what
\* json.loads returns for each; any other text raises JSONDecodeError.
JsonDocs ==
    { [text |-> <<"{\"tool\":\"a:b\",", "\"arguments\":{}}">>,
       value |-> [isdict |-> TRUE, keys |-> {"tool", "arguments"},
                  tool |-> "a:b", arguments |-> "{}"]],
      [text |-> <<"{\"tool\":\"mem:search\",", "\"arguments\":{\"q\":\"x\"}}">>,
       value |-> [isdict |-> TRUE, keys |-> {"tool", "arguments"},
                  tool |-> "mem:search", arguments |-> "{q:x}"]] }

\* a blob that is not JSON
NotJson == <<"{not json}">>

Doc_ab_text == <<"{\"tool\":\"a:b\",", "\"arguments\":{}}">>

\* JSON documents that are not a tool call as the prompt describes it: tool
\* is a number and arguments a list; an object without the two keys; a list.
\* tool holds str(tool_data["tool"]) (line 307).
OddJsonDocs ==
    { [text |-> <<"{\"tool\":5,", "\"arguments\":[1]}">>,
       value |-> [isdict |-> TRUE, keys |-> {"tool", "arguments"},
                  tool |-> "5", arguments |-> "[1]"]],
      [text |-> <<"{\"name\":\"a:b\"}">>,
       value |-> [isdict |-> TRUE, keys |-> {"name"}, tool |-> "", arguments |-> ""]],
      [text |-> <<"[1]">>,
       value |-> [isdict |-> FALSE, keys |-> {}, tool |-> "", arguments |-> ""]] }

JsonDecodes(t) == \E d \in JsonDocs \cup OddJsonDocs : d.text = t

JsonLoads(t) == (CHOOSE d \in JsonDocs \cup OddJsonDocs : d.text = t).value

\* a parser that passes every delimited blob on as a tool call
BlobEvent_Intent(json_content) == ToolCallIntent("", json_content)

\* lines 303-322: the event for one delimited blob
BlobEvent(json_content) ==
    IF JsonDecodes(json_content)
    THEN LET tool_data == JsonLoads(json_content)
         IN  IF tool_data.isdict /\ "tool" \in tool_data.keys /\ "arguments" \in tool_data.keys
             THEN ToolCallIntent(tool_data.tool, tool_data.arguments)
             ELSE ErrorInfo("Invalid tool call format received from LLM.", <<>>)
    ELSE ErrorInfo("Failed to parse tool call JSON", json_content)

\* lines 266-328: the inner loop over the buffer; st = [buffer, out]
RECURSIVE ProcessBuffer(_)
ProcessBuffer(st) ==
    LET start_index == Find(st.buffer, tool_start_delimiter, 0)
    IN  IF start_index = -1 THEN st
        ELSE LET out1 == IF start_index > 0
                         THEN Append(st.out, TextChunk(Slice(st.buffer, 0, start_index)))
                         ELSE st.out
                 buf1 == SliceFrom(st.buffer, start_index)
                 end_index == Find(buf1, tool_end_delimiter, Len(tool_start_delimiter))
             IN  IF end_index = -1 THEN [buffer |-> buf1, out |-> out1]
                 ELSE LET json_content ==
                              Strip(Slice(buf1, Len(tool_start_delimiter), end_index))
                      IN  ProcessBuffer(
                              [buffer |-> SliceFrom(buf1, end_index + Len(tool_end_delimiter)),
                               out |-> Append(out1, BlobEvent(json_content))])

\* a parser that yields the text it holds as soon as a fragment is read
FeedChunk_Eager(st, chunk) ==
    LET st1 == ProcessBuffer([buffer |-> st.buffer \o chunk, out |-> st.out])
    IN  IF st1.buffer # <<>> /\ Find(st1.buffer, tool_start_delimiter, 0) = -1
        THEN [buffer |-> <<>>, out |-> Append(st1.out, TextChunk(st1.buffer))]
        ELSE st1

\* lines 258-264: one fragment arrives
FeedChunk(st, chunk) == ProcessBuffer([buffer |-> st.buffer \o chunk, out |-> st.out])

\* a parser that drops what is left in the buffer when the stream ends
FlushBuffer_Drop(st) == [buffer |-> <<>>, out |-> st.out]

\* lines 330-333: the stream ended, flush what is left
FlushBuffer(st) ==
    IF st.buffer # <<>>
    THEN [buffer |-> <<>>, out |-> Append(st.out, TextChunk(st.buffer))]
    ELSE st

\* lines 335-337: the adapter's stream raised
StreamError(st) ==
    [buffer |-> st.buffer, out |-> Append(st.out, ErrorInfo("Stream parsing error", <<"traceback">>))]

(***************************************************************************)
(* Texts for the parser specification: prose segments and blobs.           *)
(***************************************************************************)
Prose(t) == [kind |-> "prose", text |-> t]

Blob(doc) == [kind |-> "blob", text |-> doc]

\* prose holds delimiter pieces, never a whole start delimiter
ProseTexts == { <<"x">>, <<BT>>, <<"x", "\n">>, <<"\n", BT, BT, BT>> }

Segments == {Prose(t) : t \in ProseTexts} \cup {Blob(d.text) : d \in JsonDocs}

\* prose segments are maximal: no two are adjacent
SegLists ==
    UNION { {s \in [1..n -> Segments] :
                \A i \in 1..(n - 1) : ~(s[i].kind = "prose" /\ s[i + 1].kind = "prose")}
            : n \in 1..MaxSegs }

SegText(seg) ==
    IF seg.kind = "prose" THEN seg.text
    ELSE IF seg.kind = "open" THEN tool_start_delimiter \o seg.text
    ELSE tool_start_delimiter \o seg.text \o tool_end_delimiter

\* a start delimiter and text after which the model never wrote the end
\* delimiter
Open(t) == [kind |-> "open", text |-> t]

OpenTexts == { <<>>, <<"x">>, Doc_ab_text }

\* texts with blobs that are not JSON and, at the end, an unterminated blob;
\* the empty text is one of them
TailSegments ==
    {Prose(<<"x">>), Prose(<<"\n", BT, BT, BT>>), Blob(Doc_ab_text), Blob(NotJson)}
    \cup {Open(t) : t \in OpenTexts}

\* texts whose blobs are a tool call, a blob that is not JSON and the
\* documents of OddJsonDocs
BlobSegments ==
    {Prose(<<"x">>), Blob(Doc_ab_text), Blob(NotJson)} \cup {Blob(d.text) : d \in OddJsonDocs}

BlobSegLists ==
    UNION { {s \in [1..n -> BlobSegments] :
                \A i \in 1..(n - 1) : ~(s[i].kind = "prose" /\ s[i + 1].kind = "prose")}
            : n \in 1..MaxSegs }

TailSegLists ==
    UNION { {s \in [1..n -> TailSegments] :
                /\ \A i \in 1..(n - 1) : ~(s[i].kind = "prose" /\ s[i + 1].kind = "prose")
                /\ \A i \in 1..(n - 1) : s[i].kind # "open"}
            : n \in 0..MaxSegs }

RECURSIVE Concat(_)
Concat(ss) == IF ss = <<>> THEN <<>> ELSE Head(ss) \o Concat(Tail(ss))

SourceText(segs) == Concat([i \in 1..Len(segs) |-> SegText(segs[i])])

\* the offsets of the text that fall strictly inside the start or the end
\* delimiter of a blob
DelimiterCuts(segs) ==
    UNION { LET a == Len(SourceText(SubSeq(segs, 1, i - 1)))
                e == Len(SourceText(SubSeq(segs, 1, i)))
            IN  IF segs[i].kind = "blob"
                THEN {q \in a..e : \/ a < q /\ q < a + Len(tool_start_delimiter)
                                   \/ e - Len(tool_end_delimiter) < q /\ q < e}
                ELSE {}
            : i \in 1..Len(segs) }

(***************************************************************************)
(* LLMService.generate_response over an adapter stream.                    *)
(***************************************************************************)
RECURSIVE FeedAll(_, _)
FeedAll(st, frags) ==
    IF frags = <<>> THEN st ELSE FeedAll(FeedChunk(st, Head(frags)), Tail(frags))

\* _parse_stream over a whole stream: fragments, then its end or its failure
ParseStream(frags, fails) ==
    LET st == FeedAll([buffer |-> <<>>, out |-> <<>>], frags)
    IN  IF fails THEN StreamError(st).out ELSE FlushBuffer(st).out

\* lines 378-383: the parser's parts, then EndOfTurn (the parser catches
\* the failure of the adapter itself, so EndOfTurn follows an error too)
generate_response(frags, fails) == Append(ParseStream(frags, fails), EndOfTurn)

Doc_ab == <<"{\"tool\":\"a:b\",", "\"arguments\":{}}">>

Doc_mem == <<"{\"tool\":\"mem:search\",", "\"arguments\":{\"q\":\"x\"}}">>

\* What the adapter may stream for one model call.
AdapterStreams ==
    { \* plain text in two fragments
      [frags |-> << <<"h">>, <<"i">> >>, fails |-> FALSE],
      \* text, a tool call whose start delimiter is split, trailing text
      [frags |-> << <<"o", "k", "\n", BT, BT>>,
                    <<BT, "t", "o", "o", "l", "\n">> \o Doc_ab \o tool_end_delimiter \o <<"d">> >>,
       fails |-> FALSE],
      \* a tool call and nothing else, for a tool no server registered
      [frags |-> << tool_start_delimiter \o Doc_mem \o tool_end_delimiter >>, fails |-> FALSE],
      \* text, a blob that is not JSON, text
      [frags |-> << <<"a">> \o tool_start_delimiter \o NotJson \o tool_end_delimiter \o <<"b">> >>,
       fails |-> FALSE],
      \* the provider fails after a fragment
      [frags |-> << <<"x">> >>, fails |-> TRUE] }

\* A generate_response that is not LLMService's own (a subclass, a test
\* double): it yields a chunk and then raises, which LLMService never does
\* (lines 385-388 catch everything).
RaisingService == [frags |-> << <<"p">> >>, fails |-> FALSE, raises |-> TRUE]

\* what generate_response yields, stream by stream, and whether it raises
\* at the end instead of ending
ServiceResponses ==
    { [parts |-> generate_response(r.frags, r.fails), raises |-> FALSE] : r \in AdapterStreams }
    \cup { [parts |-> ParseStream(RaisingService.frags, RaisingService.fails), raises |-> TRUE] }

HasToolCall(r) == \E i \in DOMAIN r.parts : r.parts[i].type = "ToolCallIntent"

(***************************************************************************)
(* The orchestrator, ConversationOrchestrator.                             *)
(***************************************************************************)
max_history_len == 50

\* a trim that drops the newest messages instead of the oldest
Truncate_DropNewest(history) ==
    IF Len(history) > max_history_len THEN SubSeq(history, 1, max_history_len) ELSE history

\* line 142: while len(history) > max: history.pop(0)
RECURSIVE Truncate(_)
Truncate(history) ==
    IF Len(history) > max_history_len THEN Truncate(Tail(history)) ELSE history

\* _add_message on the list of one session
AddMessage(history, message) == Truncate(Append(history, message))

(***************************************************************************)
(* The tool coordinator, MCPCoordinator: configuration and data.           *)
(***************************************************************************)
\* mcp.json: a stdio server, a stdio server whose id begins with the id of
\* the first and a colon, and a server with a transport that is not stdio
ServerConfig ==
    [a |-> [transport |-> "stdio", command |-> "run-a"]] @@
    ("a:x" :> [transport |-> "stdio", command |-> "run-ax"]) @@
    ("w" :> [transport |-> "sse", command |-> ""])

ServerIds == DOMAIN ServerConfig

\* the catalog a server answers list_tools with
Catalog(server_id) ==
    CASE server_id = "a" -> {"b"}
      [] server_id = "a:x" -> {"t"}
      [] OTHER -> {}

\* the ClientSession opened on a server's stdio transport
SessionOf(server_id) == [session_of |-> server_id]

\* lines 29-38
ToolRegistryEntry(server_id, tool_name, client) ==
    [server_id |-> server_id, name |-> tool_name, client |-> client]

\* line 98: f"{server_id}:{tool.name}"
QualifiedName(server_id, tool_name) == server_id \o ":" \o tool_name

ToolNames == UNION {Catalog(s) : s \in ServerIds}

\* what follows a server id and a colon in a key of the registry: a tool
\* name, or the rest of a longer server id, a colon and a tool name
KeyRests == ToolNames \cup {QualifiedName("x", t) : t \in ToolNames}

\* str.startswith, on the keys of the registry
StartsWith(key, prefix) == \E rest \in KeyRests : key = prefix \o rest

\* lines 90-114: the registry after a server's catalog is registered
Registered(registry, server_id, session) ==
    [q \in {QualifiedName(server_id, t) : t \in Catalog(server_id)} |->
        ToolRegistryEntry(server_id,
                          CHOOSE t \in Catalog(server_id) : QualifiedName(server_id, t) = q,
                          session)] @@ registry

\* lines 190-199: the finally of a supervisor: the session is removed if it
\* is the task's own, and every key that starts with the id and a colon
ClientsWithout(cl, server_id, client_session_ref) ==
    IF server_id \in DOMAIN cl /\ cl[server_id] = client_session_ref
    THEN [s \in DOMAIN cl \ {server_id} |-> cl[s]]
    ELSE cl

\* a finally that leaves the registry alone
RegistryWithout_Keeps(registry, server_id) == registry

RegistryWithout(registry, server_id) ==
    [q \in {k \in DOMAIN registry : ~StartsWith(k, server_id \o ":")} |-> registry[q]]

\* the registry and the sessions once server a is set up, as the
\* orchestrator finds them
ServingRegistry == Registered(<<>>, "a", SessionOf("a"))

\* MCPCoordinator.call_tool as the orchestrator sees it: what it may return
\* or raise for a qualified name, given the registry
CallToolOutcomes(registry, qualified_tool_name) ==
    IF qualified_tool_name \notin DOMAIN registry
    THEN {[ok |-> FALSE, cls |-> "ValueError", msg |-> "Tool not found in registry."]}
    ELSE {[ok |-> TRUE, result |-> "tool result"],
          [ok |-> FALSE, cls |-> "McpError", msg |-> "tool failed"]}

\* a tool message that carries another tool's name
ExecuteToolCall_OtherName(tool_intent, outcome) ==
    ChatMessage("tool", <<>>, [kind |-> "result", value |-> "tool result"], "other:tool")

\* _execute_tool_call: the role=tool message for an outcome of call_tool
ExecuteToolCall(tool_intent, outcome) ==
    IF outcome.ok
    THEN ChatMessage("tool", <<>>, [kind |-> "result", value |-> outcome.result],
                     tool_intent.tool_name)
    ELSE ChatMessage("tool", <<>>,
                     [kind |-> "error",
                      error |-> "Tool execution failed: " \o outcome.cls,
                      message |-> outcome.msg],
                     tool_intent.tool_name)

NoPart == [type |-> "None"]

NoMessage == [role |-> "none"]

\* a slot that holds no handle_input generator
IdleCall ==
    [pc |-> "idle", owner |-> "none", sid |-> "none", parts |-> <<>>,
     assistant_text_buffer |-> <<>>, last_response_part_was_tool_call |-> FALSE,
     part |-> NoPart, tool_result_message |-> NoMessage,
     raises |-> FALSE, events |-> <<>>, llm_calls |-> <<>>, outcomes |-> <<>>]

Slots == {1, 2}

Active(c) == c.pc \notin {"idle", "done", "abandoned"}

(***************************************************************************)
(* The session gateway, WebSocketHandler: frames and configuration.        *)
(***************************************************************************)
Conns == {"c1"}

\* uuid4 of _register_connection: one fresh id per connection
SessionId(w) == "sid-" \o w

\* frames a client may send, as json.loads sees them
AuthFrame(e, p) ==
    [json |-> TRUE, type |-> "auth", keys |-> {"type", "email", "password"},
     email |-> e, password |-> p]

IdentifyFrame(e) == [json |-> TRUE, type |-> "identify", keys |-> {"type", "email"}, email |-> e]

InvalidJson == [json |-> FALSE]

MessageFrame(t) ==
    [json |-> TRUE, type |-> "message", keys |-> {"type", "payload"},
     payload |-> [keys |-> {"text"}, text |-> t]]

\* a frame of a type the message loop does not know
OtherFrame == [json |-> TRUE, type |-> "ping", keys |-> {"type"}]

NoFrame == [json |-> FALSE, type |-> "none"]

\* authorized_users: tony has a stored hash, peter has only a prompt
\* addition (as in main.py), nobody else is known
authorized_users ==
    ("tony" :> [keys |-> {"hashed_password", "prompt_addition"},
                hashed_password |-> "bcrypt:pw-tony", prompt_addition |-> "Tony"])
    @@ ("peter" :> [keys |-> {"prompt_addition"}, prompt_addition |-> "Peter"])

\* a check that accepts any password
checkpw_Any(password, hashed) == TRUE

\* bcrypt.checkpw
checkpw(password, hashed) == hashed = "bcrypt:" \o password

\* base_system_prompt_template.format(persona_definition=...)
FormatTemplate(persona_definition) == "You are JARVIS. " \o persona_definition

FirstFrames ==
    { AuthFrame("tony", "pw-tony"), AuthFrame("tony", "wrong"), AuthFrame("peter", "pw-peter"),
      AuthFrame("unknown", "pw"), IdentifyFrame("tony"), IdentifyFrame("unknown"), InvalidJson,
      MessageFrame(<<"q", "0">>) }

\* the text of the n-th frame a client sends, when it is a message
UserText(n) == <<"q", ToString(n)>>

LoopFrames(n) == { MessageFrame(UserText(n)), OtherFrame, InvalidJson }

\* lines 102-130: the frame for a response part, <<>> for None
_format_response_part(part) ==
    IF part.type = "TextChunk"
    THEN << [type |-> "text", payload |-> [content |-> part.content]] >>
    ELSE IF part.type = "ToolCallIntent"
    THEN << [type |-> "status",
             payload |-> [state |-> "processing", tool |-> part.tool_name,
                          arguments |-> part.arguments]] >>
    ELSE IF part.type = "ErrorInfo"
    THEN << [type |-> "error", payload |-> [message |-> part.message, details |-> part.details]] >>
    ELSE IF part.type = "EndOfTurn"
    THEN << [type |-> "end"] >>
    ELSE <<>>

\* lines 141-220: the authentication phase for a first frame, on a client
\* that stays connected: the value of `authenticated`, the frames sent and
\* the session record stored
AuthPhase(w, frame) ==
    LET failed(m) == [type |-> "auth_failed", message |-> m]
    IN  IF ~frame.json
        THEN [authenticated |-> FALSE, sends |-> <<failed("Invalid JSON during authentication.")>>,
              session |-> <<>>]
        ELSE IF frame.type = "auth" /\ "email" \in frame.keys /\ "password" \in frame.keys
        THEN IF frame.email \in DOMAIN authorized_users
             THEN LET user_data == authorized_users[frame.email]
                      authenticated ==
                          /\ "hashed_password" \in user_data.keys
                          /\ checkpw(frame.password, user_data.hashed_password)
                  IN  IF authenticated
                      THEN [authenticated |-> TRUE,
                            sends |-> << [type |-> "auth_success", sessionId |-> SessionId(w)] >>,
                            session |-> << [email |-> frame.email,
                                            system_prompt |->
                                                FormatTemplate(user_data.prompt_addition)] >>]
                      \* line 179: nothing is sent when the check fails
                      ELSE [authenticated |-> FALSE, sends |-> <<>>, session |-> <<>>]
             ELSE [authenticated |-> FALSE, sends |-> <<failed("Authentication failed.")>>,
                   session |-> <<>>]
        \* line 208 reads the unbound local `email`: the NameError is caught
        \* at line 216, which sends the failure frame
        ELSE [authenticated |-> FALSE,
              sends |-> <<failed("Server error during authentication")>>, session |-> <<>>]

\* line 243: is the frame a user message
IsUserMessage(frame) ==
    /\ frame.json
    /\ frame.type = "message"
    /\ "payload" \in frame.keys
    /\ frame.payload.keys # {}
    /\ "text" \in frame.payload.keys

NewConn ==
    [pc |-> "new", open |-> FALSE, inbox |-> <<>>, nsent |-> 0, first |-> NoFrame,
     auth_frames |-> <<>>, auth_open |-> FALSE, turn_frames |-> <<>>, close_code |-> 0,
     authenticated |-> FALSE, arrived |-> <<>>, started |-> <<>>, queued_in_turn |-> {},
     started_queued |-> FALSE, failed_before |-> FALSE]

(***************************************************************************)
(* The auth gateway, web_gateway.websocket_proxy_endpoint: its data.       *)
(***************************************************************************)
\* JSON values of the fields of an auth frame, by Python type
JStr(v) == [t |-> "str", v |-> v]

JList == [t |-> "list"]

JNone == [t |-> "none"]

\* bool(value): None, "" and [] are false
Truthy(x) == IF x.t = "str" THEN x.v # "" ELSE x.t = "list"

\* can the value be a dict key
Hashable(x) == x.t # "list"

GwAuthFrame(e, p) == [json |-> TRUE, isdict |-> TRUE, type |-> "auth", email |-> e, password |-> p]

GwOtherFrame == [json |-> TRUE, isdict |-> TRUE, type |-> "message", email |-> JNone, password |-> JNone]

\* valid JSON that is not an object
GwNotDict == [json |-> TRUE, isdict |-> FALSE]

GwEmails == {JStr("tony"), JStr("peter"), JStr("unknown"), JStr(""), JNone, JList}

GwPasswords == {JStr("pw-tony"), JStr("wrong"), JNone, JList}

GwFirstFrames ==
    {InvalidJson, GwNotDict, GwOtherFrame} \cup {GwAuthFrame(e, p) : e \in GwEmails, p \in GwPasswords}

\* AUTHORIZED_USER_HASHES: tony's hash is set, peter's environment variable
\* is missing (None)
AUTHORIZED_USER_HASHES == ("tony" :> "bcrypt:pw-tony") @@ ("peter" :> "")

\* lines 37-59
verify_password(plain_password, hashed_password_str) ==
    IF plain_password.t # "str" THEN FALSE
    ELSE checkpw(plain_password.v, hashed_password_str)

GwAuthFail(reason) == [type |-> "auth_fail", reason |-> reason]

\* lines 168-202 and 270-273 on a first frame: the frames sent to the
\* client, the close code (0: the connection stays open) and the email
\* authenticated ("" for none)
GwAuthPhase(frame) ==
    LET refuse(reason) ==
            [sends |-> <<GwAuthFail(reason)>>, close_code |-> 1008, authenticated_email |-> ""]
    IN  IF ~frame.json THEN refuse("Invalid auth message format")
        ELSE IF ~frame.isdict \/ frame.type # "auth" THEN refuse("Invalid auth message format")
        ELSE IF ~Truthy(frame.email) \/ ~Truthy(frame.password)
        THEN refuse("Invalid auth message format")
        \* line 186: dict.get on an unhashable key raises TypeError, which only
        \* the handler of line 270 catches: close 1011 and no frame
        ELSE IF ~Hashable(frame.email)
        THEN [sends |-> <<>>, close_code |-> 1011, authenticated_email |-> ""]
        ELSE LET hashed_password ==
                     IF frame.email.v \in DOMAIN AUTHORIZED_USER_HASHES
                     THEN AUTHORIZED_USER_HASHES[frame.email.v] ELSE ""
             IN  IF hashed_password = "" THEN refuse("User not found or not configured.")
                 ELSE IF verify_password(frame.password, hashed_password)
                 THEN [sends |-> << [type |-> "auth_success"] >>, close_code |-> 0,
                       authenticated_email |-> frame.email.v]
                 ELSE refuse("Incorrect password")

max_attempts == 10
initial_delay == 1
max_delay == 10
timeout_seconds == 60

\* a retry loop whose wait doubles without a cap
delay_Uncapped(connect_attempts) == initial_delay * 2^(connect_attempts - 1)

\* line 231: the wait after a failed attempt, in seconds
delay(connect_attempts) ==
    IF initial_delay * 2^(connect_attempts - 1) < max_delay
    THEN initial_delay * 2^(connect_attempts - 1)
    ELSE max_delay

\* the seconds a sequence of waits has taken at least
RECURSIVE Slept(_)
Slept(delays) == IF delays = <<>> THEN 0 ELSE Head(delays) + Slept(Tail(delays))

\* frames either side sends over the bridge
TextFrame(data) == [kind |-> "text", data |-> data]

\* a binary frame: receive_text cannot return it
BytesFrame == [kind |-> "bytes", data |-> "b"]

ClientBridgeFrames == {TextFrame("m1"), TextFrame("m2"), BytesFrame}

BackendBridgeFrames == {TextFrame("r1"), TextFrame("r2")}

\* lines 236-238
identify_message(authenticated_email) == [type |-> "identify", email |-> authenticated_email]

\* ServerConfig.timeout_ms, line 27
timeout_ms == 10000

NewGw ==
    [pc |-> "new", open |-> FALSE, inbox |-> <<>>, first |-> NoFrame, handled |-> FALSE,
     sent |-> <<>>, close_code |-> 0, authenticated_email |-> "",
     connect_attempts |-> 0, backend |-> "none", to_backend |-> <<>>,
     client_sent |-> <<>>, backend_sent |-> <<>>, backend_inbox |-> <<>>,
     client_to_backend_task |-> "none", backend_to_client_task |-> "none",
     delays |-> <<>>]

(***************************************************************************)
(* What a model call sends: LLMService.generate_response builds the        *)
(* adapter's input and GeminiAdapter.stream_generate formats it.  Texts    *)
(* are sequences of strings.                                               *)
(***************************************************************************)
\* llm_service.py lines 200-202: the base prompt, then the tool instructions
_compile_system_prompt(base_prompt_content) ==
    <<base_prompt_content, "\n--- Tool Usage Instructions ---">>

\* llm_service.py lines 370-373: the dict handed to the adapter
adapter_input(final_system_prompt, history) ==
    ("system" :> final_system_prompt) @@ ("history" :> history)

\* dict.get(key, default)
DictGet(d, key, default) == IF key \in DOMAIN d THEN d[key] ELSE default

\* None where a text is expected
NoText == <<"None">>

ContentDict(role, text) == [role |-> role, parts |-> <<[text |-> text]>>]

\* gemini_adapter.py lines 97-133: one history message as a content entry;
\* parts is empty for a message that is skipped
HistoryContent(message) ==
    IF message.role = "assistant" THEN ContentDict("model", message.content)
    ELSE IF message.role = "user" THEN ContentDict("user", message.content)
    ELSE IF message.role = "tool" /\ message.data # NoData
    THEN LET tool_context == IF message.tool_name # ""
                             THEN "Result for tool '" \o message.tool_name \o "':\n"
                             ELSE "Tool Result:\n"
         IN  ContentDict("user", <<tool_context, message.data>>)
    ELSE [role |-> "none", parts |-> <<>>]

\* gemini_adapter.py lines 78-143
_format_contents_for_gemini(system_prompt, history) ==
    LET head == IF system_prompt # NoText /\ system_prompt \notin {<<>>, <<"">>, <<" ">>}
                THEN << ContentDict("user", system_prompt),
                        ContentDict("model", <<"Understood. I will follow these instructions.">>) >>
                ELSE <<>>
        mapped == [i \in 1..Len(history) |-> HistoryContent(history[i])]
    IN  head \o SelectSeq(mapped, LAMBDA e : e.parts # <<>>)

\* gemini_adapter.py lines 184-186: what stream_generate reads from the dict
\* and formats
formatted_contents(prompt_and_history) ==
    _format_contents_for_gemini(DictGet(prompt_and_history, "system_prompt", NoText),
                                DictGet(prompt_and_history, "history", <<>>))

\* llm_service.py lines 362-378: the contents of the request of one call of
\* generate_response
RequestContents(system_prompt, history) ==
    formatted_contents(adapter_input(_compile_system_prompt(system_prompt), history))

(***************************************************************************)
(* LLMService._clean_mcp_schema_for_gemini.  A JSON value is a record      *)
(* [isdict, items]: a dict holds its items as a set of [key, value], any   *)
(* other value holds none.                                                 *)
(***************************************************************************)
Dict(items) == [isdict |-> TRUE, items |-> items]

Scalar == [isdict |-> FALSE, items |-> {}]

Item(key, value) == [key |-> key, value |-> value]

HasKey(d, key) == \E i \in d.items : i.key = key

ValueAt(d, key) == (CHOOSE i \in d.items : i.key = key).value

\* dict.pop(key, None)
Pop(d, key) == Dict({i \in d.items : i.key # key})

\* a sanitation that cleans the top level only
_clean_mcp_schema_TopOnly(mcp_schema) ==
    IF ~mcp_schema.isdict THEN Dict({})
    ELSE Pop(Pop(mcp_schema, "additionalProperties"), "$schema")

\* llm_service.py lines 161-177; the deep copy of line 169 returns a value
\* equal to the schema, which came out of a JSON document
_clean_mcp_schema_for_gemini(mcp_schema) ==
    IF ~mcp_schema.isdict THEN Dict({})
    ELSE LET gemini_params == Pop(Pop(mcp_schema, "additionalProperties"), "$schema")
             clean(prop_value) ==
                 IF prop_value.isdict
                 THEN Pop(Pop(prop_value, "additionalProperties"), "$schema")
                 ELSE prop_value
         IN  IF HasKey(gemini_params, "properties") /\ ValueAt(gemini_params, "properties").isdict
             THEN Dict({ IF i.key = "properties"
                         THEN Item("properties",
                                   Dict({Item(q.key, clean(q.value)) : q \in i.value.items}))
                         ELSE i
                         : i \in gemini_params.items })
             ELSE gemini_params

\* dicts whose keys are any subset of keys, each with a value of values
RECURSIVE DictsOver(_, _)
DictsOver(keys, values) ==
    IF keys = {} THEN {Dict({})}
    ELSE LET k == CHOOSE x \in keys : TRUE
             rest == DictsOver(keys \ {k}, values)
         IN  rest \cup {Dict(d.items \cup {Item(k, v)}) : d \in rest, v \in values}

\* the values of the entries of properties: a value that is no dict, or a
\* dict with some of the keys type, additionalProperties, $schema
PropertyValues ==
    {Scalar} \cup DictsOver({"type", "additionalProperties", "$schema"}, {Scalar})

\* what properties holds: a value that is no dict, or entries named p and
\* additionalProperties
PropertiesValues ==
    {Scalar} \cup DictsOver({"p", "additionalProperties"}, PropertyValues)

\* the schemas given to the sanitation
Schemas ==
    {Scalar}
    \cup DictsOver({"type", "additionalProperties", "$schema"}, {Scalar, Dict({})})
    \cup { Dict(d.items \cup {Item("properties", pv)}) :
             d \in DictsOver({"type", "additionalProperties", "$schema"}, {Scalar}),
             pv \in PropertiesValues }

NoSchemaCall == [pc |-> "none", mcp_schema |-> Scalar, once |-> Scalar, twice |-> Scalar]

(***************************************************************************)
(* State.                                                                  *)
(***************************************************************************)
VARIABLES
    schema_call,    \* LLMService: a schema given to the sanitation and its results
    p_segs,     \* parser: the segments the model wrote (what the text is made of)
    p_rest,     \* parser: text the adapter has not yielded yet
    p_cut,      \* parser: has a fragment ended inside a delimiter of a blob
    p_state,    \* parser: the buffer and the parts yielded
    p_pc,       \* parser: "reading", "done" (stream ended), "failed" (stream raised)
    histories,  \* orchestrator._histories: session_id -> list of ChatMessage
    appended,   \* every message ever appended, per session (for the cap claim)
    calls,      \* the handle_input generators, one per slot
    tool_registry,  \* coordinator.tool_registry: qualified name -> ToolRegistryEntry
    turns,      \* handle_input calls started so far
    hops,       \* responses with a tool call the model may still give
    conn,       \* gateway: per connection, the handler's position and the wire
    connections,            \* handler._connections: websocket -> session_id
    sessions,               \* handler._sessions: session_id -> websocket
    authenticated_sessions, \* handler._authenticated_sessions
    agw,        \* auth gateway: one client connection of websocket_proxy_endpoint
    clients,        \* coordinator.clients: server_id -> ClientSession
    server_tasks,   \* coordinator._server_tasks: per server, its supervisor task
    shutdown_event, \* coordinator._shutdown_event
    initialize_call,    \* the call of initialize(): its position and its lists
    tool_call       \* a call of coordinator.call_tool by some task

parserVars == <<p_segs, p_rest, p_cut, p_state, p_pc, schema_call>>

orchVars == <<histories, appended, calls, tool_registry, turns, hops>>

gatewayVars == <<conn, connections, sessions, authenticated_sessions>>

authVars == <<agw>>

coordVars == <<clients, server_tasks, shutdown_event, initialize_call, tool_call>>

vars == <<parserVars, orchVars, gatewayVars, authVars, coordVars>>

(***************************************************************************)
(* Parser specification: one stream, cut into fragments at will.           *)
(***************************************************************************)
ParserStart(segs) ==
    /\ p_segs = segs
    /\ p_rest = SourceText(segs)
    /\ p_cut = FALSE
    /\ p_state = [buffer |-> <<>>, out |-> <<>>]
    /\ p_pc = "reading"
    /\ schema_call = NoSchemaCall

ParserOff ==
    /\ p_segs = <<>>
    /\ p_rest = <<>>
    /\ p_cut = FALSE
    /\ p_state = [buffer |-> <<>>, out |-> <<>>]
    /\ p_pc = "idle"

ParserIdle == ParserOff /\ schema_call = NoSchemaCall

OrchIdle ==
    /\ histories = <<>>
    /\ appended = <<>>
    /\ calls = [k \in Slots |-> IdleCall]
    /\ turns = 0
    /\ hops = MaxHops

OrchInit == OrchIdle /\ tool_registry = ServingRegistry

AuthInit == agw = NewGw

\* a supervisor task: its position in _manage_server_connection, the setup
\* event initialize() gave it, whether its cancellation was requested, and
\* why it is leaving
Task(pc, setup_event, cancel_requested, why) ==
    [pc |-> pc, setup_event |-> setup_event, cancel_requested |-> cancel_requested, why |-> why]

NoToolCall ==
    [pc |-> "idle", qualified_tool_name |-> "", arguments |-> "", invocations |-> <<>>,
     owner_pc |-> "", coord_pc |-> "", waited |-> 0, error |-> "", made |-> 0]

\* lines 43-55: the coordinator after construction
CoordInit ==
    /\ clients = <<>>
    /\ tool_registry = <<>>
    /\ server_tasks = [s \in ServerIds |-> Task("none", FALSE, FALSE, "")]
    /\ shutdown_event = FALSE
    /\ initialize_call = [pc |-> "idle", failed_servers |-> {}, successful_servers |-> {}]
    /\ tool_call = NoToolCall

\* the coordinator as the orchestrator uses it: initialize() has returned,
\* server a is set up, the other supervisors have ended
CoordServing ==
    /\ clients = ("a" :> SessionOf("a"))
    /\ server_tasks = [s \in ServerIds |->
                          IF s = "a" THEN Task("serving", TRUE, FALSE, "")
                          ELSE Task("ended", TRUE, FALSE, "crash")]
    /\ shutdown_event = FALSE
    /\ initialize_call = [pc |-> "returned", failed_servers |-> {},
                          successful_servers |-> ServerIds]
    /\ tool_call = NoToolCall


GatewayInit ==
    /\ conn = [w \in Conns |-> NewConn]
    /\ connections = <<>>
    /\ sessions = <<>>
    /\ authenticated_sessions = <<>>

\* the adapter yields the next fragment, of any length
ParserFeed ==
    /\ p_pc = "reading"
    /\ \E n \in 1..Len(p_rest) :
          /\ p_state' = FeedChunk(p_state, SubSeq(p_rest, 1, n))
          /\ p_rest' = SliceFrom(p_rest, n)
          /\ p_cut' = (p_cut \/ Len(SourceText(p_segs)) - Len(p_rest) + n \in DelimiterCuts(p_segs))
    /\ UNCHANGED <<p_segs, p_pc, schema_call, orchVars, gatewayVars, authVars, coordVars>>

\* the adapter's stream ends
ParserEnd ==
    /\ p_pc = "reading"
    /\ p_rest = <<>>
    /\ p_state' = FlushBuffer(p_state)
    /\ p_pc' = "done"
    /\ UNCHANGED <<p_segs, p_rest, p_cut, schema_call, orchVars, gatewayVars, authVars, coordVars>>

\* the adapter's stream raises
ParserRaise ==
    /\ p_pc = "reading"
    /\ p_state' = StreamError(p_state)
    /\ p_pc' = "failed"
    /\ UNCHANGED <<p_segs, p_rest, p_cut, schema_call, orchVars, gatewayVars, authVars, coordVars>>

InitParser == (\E segs \in SegLists : ParserStart(segs)) /\ OrchInit /\ GatewayInit /\ AuthInit /\ CoordServing

NextParser == ParserFeed \/ ParserEnd \/ ParserRaise

SpecParser == InitParser /\ [][NextParser]_vars

\* the same parser over the texts of TailSegLists
InitParserTail == (\E segs \in TailSegLists : ParserStart(segs)) /\ OrchInit /\ GatewayInit /\ AuthInit /\ CoordServing

SpecParserTail == InitParserTail /\ [][NextParser]_vars

\* the same parser over the texts of BlobSegLists
InitParserBlobs == (\E segs \in BlobSegLists : ParserStart(segs)) /\ OrchInit /\ GatewayInit /\ AuthInit /\ CoordServing

SpecParserBlobs == InitParserBlobs /\ [][NextParser]_vars

(***************************************************************************)
(* Sanitation specification: one schema, sanitised and sanitised again.    *)
(***************************************************************************)
CleanSchema ==
    /\ schema_call.pc = "given"
    /\ schema_call' = [schema_call EXCEPT
                          !.pc = "once",
                          !.once = _clean_mcp_schema_for_gemini(schema_call.mcp_schema)]
    /\ UNCHANGED <<p_segs, p_rest, p_cut, p_state, p_pc, orchVars, gatewayVars, authVars, coordVars>>

CleanSchemaAgain ==
    /\ schema_call.pc = "once"
    /\ schema_call' = [schema_call EXCEPT
                          !.pc = "twice",
                          !.twice = _clean_mcp_schema_for_gemini(schema_call.once)]
    /\ UNCHANGED <<p_segs, p_rest, p_cut, p_state, p_pc, orchVars, gatewayVars, authVars, coordVars>>

InitSchema ==
    /\ ParserOff
    /\ \E sc \in Schemas : schema_call = [NoSchemaCall EXCEPT !.pc = "given", !.mcp_schema = sc]
    /\ OrchInit /\ GatewayInit /\ AuthInit /\ CoordServing

NextSchema == CleanSchema \/ CleanSchemaAgain

SpecSchema == InitSchema /\ [][NextSchema]_vars

(***************************************************************************)
(* handle_input, one action per stretch between two suspension points.     *)
(***************************************************************************)
\* the model answers: any stream the adapter may produce; a response that
\* asks for a tool is taken from the hops that are left
ModelAnswers == {r \in ServiceResponses : HasToolCall(r) => hops > 0}

HistoryOf(sid) == IF sid \in DOMAIN histories THEN histories[sid] ELSE <<>>

AppendedTo(sid) == IF sid \in DOMAIN appended THEN appended[sid] ELSE <<>>

\* an orchestrator that keeps one history for all sessions
Added_Shared(sid, message) ==
    /\ histories' = [h \in DOMAIN histories \cup {sid} |->
                        AddMessage(HistoryOf(CHOOSE x \in DOMAIN histories \cup {sid} : TRUE),
                                   message)]
    /\ appended' = (sid :> Append(AppendedTo(sid), message)) @@ appended

\* histories and appended after _add_message(sid, message)
Added(sid, message) ==
    /\ histories' = (sid :> AddMessage(HistoryOf(sid), message)) @@ histories
    /\ appended' = (sid :> Append(AppendedTo(sid), message)) @@ appended

\* lines 266-279: the top of the loop: snapshot the history, call the model
CallModel(c, history, r) ==
    [c EXCEPT !.pc = "stream",
              !.parts = r.parts,
              !.raises = r.raises,
              !.assistant_text_buffer = <<>>,
              !.last_response_part_was_tool_call = FALSE,
              !.llm_calls = Append(@, history)]

\* a part is yielded by the generator in slot k and its consumer handles
\* it: a gateway connection formats and sends it (lines 254-269), and a send
\* to a client that is gone raises, which ends the consumption (line 282)
Deliver(k, c, part, finished) ==
    LET c2 == [c EXCEPT !.events = Append(@, part)]
    IN  IF c.owner \in Conns
        THEN LET w == c.owner
                 response_payload == _format_response_part(part)
             IN  IF response_payload = <<>>
                 THEN /\ calls' = [calls EXCEPT ![k] = c2]
                      /\ conn' = conn
                 ELSE IF conn[w].open
                 THEN /\ calls' = [calls EXCEPT ![k] = c2]
                      /\ conn' = [conn EXCEPT ![w].turn_frames = Append(@, response_payload[1]),
                                              ![w].pc = IF finished THEN "loop" ELSE @]
                 ELSE /\ calls' = [calls EXCEPT ![k] = [c2 EXCEPT !.pc = "abandoned"]]
                      /\ conn' = [conn EXCEPT ![w].pc = "loop"]
        ELSE /\ calls' = [calls EXCEPT ![k] = c2]
             /\ conn' = conn

FreeSlot == CHOOSE k \in Slots : ~Active(calls[k]) /\ \A j \in Slots : ~Active(calls[j]) => k <= j

\* lines 254-279: handle_input(sid, text) starts: the user message is
\* appended and the model is called
StartCall(owner, sid, text) ==
    /\ turns < MaxTurns
    /\ \E k \in Slots : ~Active(calls[k])
    /\ LET user_message == ChatMessage("user", text, NoData, "")
           history == AddMessage(HistoryOf(sid), user_message)
       IN  /\ Added(sid, user_message)
           /\ \E r \in ModelAnswers :
                 /\ calls' = [calls EXCEPT ![FreeSlot] =
                                 CallModel([IdleCall EXCEPT !.owner = owner, !.sid = sid],
                                           history, r)]
                 /\ hops' = IF HasToolCall(r) THEN hops - 1 ELSE hops
    /\ turns' = turns + 1
    /\ UNCHANGED tool_registry

\* a handle_input that keeps the last TextChunk only
StepText_LastOnly(k) ==
    LET c == calls[k] IN
    /\ c.pc = "stream" /\ c.parts # <<>> /\ Head(c.parts).type = "TextChunk"
    /\ Deliver(k, [c EXCEPT !.parts = Tail(@),
                            !.last_response_part_was_tool_call = FALSE,
                            !.assistant_text_buffer = Head(c.parts).content],
               Head(c.parts), FALSE)
    /\ UNCHANGED <<histories, appended, tool_registry, turns, hops>>
    /\ UNCHANGED <<parserVars, authVars, coordVars, connections, sessions, authenticated_sessions>>

\* lines 285-287: a TextChunk is buffered and yielded
StepText(k) ==
    LET c == calls[k] IN
    /\ c.pc = "stream" /\ c.parts # <<>> /\ Head(c.parts).type = "TextChunk"
    /\ Deliver(k, [c EXCEPT !.parts = Tail(@),
                            !.last_response_part_was_tool_call = FALSE,
                            !.assistant_text_buffer = @ \o Head(c.parts).content],
               Head(c.parts), FALSE)
    /\ UNCHANGED <<histories, appended, tool_registry, turns, hops>>
    /\ UNCHANGED <<parserVars, authVars, coordVars, connections, sessions, authenticated_sessions>>

\* lines 289-300: a ToolCallIntent: the buffered text goes to history, the
\* intent is yielded
StepIntent(k) ==
    LET c == calls[k] IN
    /\ c.pc = "stream" /\ c.parts # <<>> /\ Head(c.parts).type = "ToolCallIntent"
    /\ IF c.assistant_text_buffer # <<>>
       THEN Added(c.sid, ChatMessage("assistant", c.assistant_text_buffer, NoData, ""))
       ELSE UNCHANGED <<histories, appended>>
    /\ Deliver(k, [c EXCEPT !.pc = "intent_sent",
                            !.part = Head(c.parts),
                            !.parts = Tail(@),
                            !.last_response_part_was_tool_call = TRUE,
                            !.assistant_text_buffer = <<>>],
               Head(c.parts), FALSE)
    /\ UNCHANGED <<tool_registry, turns, hops>>
    /\ UNCHANGED <<parserVars, authVars, coordVars, connections, sessions, authenticated_sessions>>

\* lines 302-308: the tool is called and its result yielded
StepToolCall(k) ==
    LET c == calls[k] IN
    /\ c.pc = "intent_sent"
    /\ \E outcome \in CallToolOutcomes(tool_registry, c.part.tool_name) :
          LET tool_result_message == ExecuteToolCall(c.part, outcome)
          IN  Deliver(k, [c EXCEPT !.pc = "result_sent",
                                   !.tool_result_message = tool_result_message,
                                   !.outcomes = Append(@, outcome)],
                      ToolResultData(tool_result_message.tool_name, tool_result_message.data),
                      FALSE)
    /\ UNCHANGED <<histories, appended, tool_registry, turns, hops>>
    /\ UNCHANGED <<parserVars, authVars, coordVars, connections, sessions, authenticated_sessions>>

\* a step that yields RePromptContext without appending the tool message
StepToolAdd_NotAppended(k) ==
    LET c == calls[k] IN
    /\ c.pc = "result_sent"
    /\ Deliver(k, [c EXCEPT !.pc = "reprompt_sent"], RePromptContext(c.tool_result_message), FALSE)
    /\ UNCHANGED <<histories, appended, tool_registry, turns, hops>>
    /\ UNCHANGED <<parserVars, authVars, coordVars, connections, sessions, authenticated_sessions>>

\* a handle_input that goes on with the rest of the response after the tool
StepToolAdd_NoBreak(k) ==
    LET c == calls[k] IN
    /\ c.pc = "result_sent"
    /\ Added(c.sid, c.tool_result_message)
    /\ Deliver(k, [c EXCEPT !.pc = "stream"], RePromptContext(c.tool_result_message), FALSE)
    /\ UNCHANGED <<tool_registry, turns, hops>>
    /\ UNCHANGED <<parserVars, authVars, coordVars, connections, sessions, authenticated_sessions>>

\* lines 311-314: the tool message goes to history, RePromptContext is yielded
StepToolAdd(k) ==
    LET c == calls[k] IN
    /\ c.pc = "result_sent"
    /\ Added(c.sid, c.tool_result_message)
    /\ Deliver(k, [c EXCEPT !.pc = "reprompt_sent"], RePromptContext(c.tool_result_message), FALSE)
    /\ UNCHANGED <<tool_registry, turns, hops>>
    /\ UNCHANGED <<parserVars, authVars, coordVars, connections, sessions, authenticated_sessions>>

\* lines 317, 266-279: break, and the model is called again
StepReprompt(k) ==
    LET c == calls[k] IN
    /\ c.pc = "reprompt_sent"
    /\ \E r \in ModelAnswers :
          /\ calls' = [calls EXCEPT ![k] = CallModel(c, HistoryOf(c.sid), r)]
          /\ hops' = IF HasToolCall(r) THEN hops - 1 ELSE hops
    /\ UNCHANGED <<histories, appended, tool_registry, turns, conn>>
    /\ UNCHANGED <<parserVars, authVars, coordVars, connections, sessions, authenticated_sessions>>

\* a handle_input that gives up on an ErrorInfo of the stream: it yields
\* the part and returns
StepError_Breaks(k) ==
    LET c == calls[k] IN
    /\ c.pc = "stream" /\ c.parts # <<>> /\ Head(c.parts).type = "ErrorInfo"
    /\ Deliver(k, [c EXCEPT !.parts = Tail(@), !.pc = "done"], Head(c.parts), TRUE)
    /\ UNCHANGED <<histories, appended, tool_registry, turns, hops>>
    /\ UNCHANGED <<parserVars, authVars, coordVars, connections, sessions, authenticated_sessions>>

\* lines 319-322: an ErrorInfo of the stream is yielded
StepError(k) ==
    LET c == calls[k] IN
    /\ c.pc = "stream" /\ c.parts # <<>> /\ Head(c.parts).type = "ErrorInfo"
    /\ Deliver(k, [c EXCEPT !.parts = Tail(@), !.last_response_part_was_tool_call = FALSE],
               Head(c.parts), FALSE)
    /\ UNCHANGED <<histories, appended, tool_registry, turns, hops>>
    /\ UNCHANGED <<parserVars, authVars, coordVars, connections, sessions, authenticated_sessions>>

\* lines 324-325: the service's EndOfTurn is ignored
StepServiceEnd(k) ==
    LET c == calls[k] IN
    /\ c.pc = "stream" /\ c.parts # <<>> /\ Head(c.parts).type = "EndOfTurn"
    /\ calls' = [calls EXCEPT ![k] = [c EXCEPT !.parts = Tail(@),
                                               !.last_response_part_was_tool_call = FALSE]]
    /\ UNCHANGED <<histories, appended, tool_registry, turns, hops, conn>>
    /\ UNCHANGED <<parserVars, authVars, coordVars, connections, sessions, authenticated_sessions>>

\* lines 338-348: the stream is over: the buffered text goes to history and
\* EndOfTurn is yielded
StepFinish(k) ==
    LET c == calls[k] IN
    /\ c.pc = "stream" /\ c.parts = <<>> /\ ~c.raises
    /\ ~c.last_response_part_was_tool_call
    /\ IF c.assistant_text_buffer # <<>>
       THEN Added(c.sid, ChatMessage("assistant", c.assistant_text_buffer, NoData, ""))
       ELSE UNCHANGED <<histories, appended>>
    /\ Deliver(k, [c EXCEPT !.pc = "done"], EndOfTurn, TRUE)
    /\ UNCHANGED <<tool_registry, turns, hops>>
    /\ UNCHANGED <<parserVars, authVars, coordVars, connections, sessions, authenticated_sessions>>

\* lines 350-353: the stream raises into the loop's handler: ErrorInfo is
\* yielded and the loop is left
StepRaise(k) ==
    LET c == calls[k] IN
    /\ c.pc = "stream" /\ c.parts = <<>> /\ c.raises
    /\ Deliver(k, [c EXCEPT !.pc = "done"],
               ErrorInfo("Internal orchestrator error", <<"traceback">>), TRUE)
    /\ UNCHANGED <<histories, appended, tool_registry, turns, hops>>
    /\ UNCHANGED <<parserVars, authVars, coordVars, connections, sessions, authenticated_sessions>>

(***************************************************************************)
(* Callers of the orchestrator other than the gateway.                     *)
(***************************************************************************)
DirectSessions == {"s1", "s2"}

\* some task calls handle_input(sid, text) and consumes what it yields
DirectCall(sid) ==
    /\ StartCall("direct", sid, UserText(turns + 1))
    /\ UNCHANGED <<parserVars, authVars, coordVars, gatewayVars>>

InitOrch == ParserIdle /\ OrchInit /\ GatewayInit /\ AuthInit /\ CoordServing

NextOrch ==
    \/ \E sid \in DirectSessions : DirectCall(sid)
    \/ \E k \in Slots : StepText(k)
    \/ \E k \in Slots : StepIntent(k)
    \/ \E k \in Slots : StepToolCall(k)
    \/ \E k \in Slots : StepToolAdd(k)
    \/ \E k \in Slots : StepReprompt(k)
    \/ \E k \in Slots : StepError(k)
    \/ \E k \in Slots : StepServiceEnd(k)
    \/ \E k \in Slots : StepFinish(k)
    \/ \E k \in Slots : StepRaise(k)

SpecOrch == InitOrch /\ [][NextOrch]_vars

\* the same callers, one handle_input call per session: the calls that are
\* in progress together belong to different sessions
FirstCall(sid) == sid \notin DOMAIN histories /\ DirectCall(sid)

NextSessions ==
    \/ \E sid \in DirectSessions : FirstCall(sid)
    \/ \E k \in Slots : StepText(k)
    \/ \E k \in Slots : StepIntent(k)
    \/ \E k \in Slots : StepToolCall(k)
    \/ \E k \in Slots : StepToolAdd(k)
    \/ \E k \in Slots : StepReprompt(k)
    \/ \E k \in Slots : StepError(k)
    \/ \E k \in Slots : StepServiceEnd(k)
    \/ \E k \in Slots : StepFinish(k)
    \/ \E k \in Slots : StepRaise(k)

SpecSessions == InitOrch /\ [][NextSessions]_vars

(***************************************************************************)
(* Long conversations: a session whose history is already near its cap,    *)
(* and a caller that awaits each turn before it starts the next.           *)
(***************************************************************************)
PrefillLens == {0, max_history_len - 1, max_history_len}

\* the history after n messages of earlier plain-text turns
Prefilled(n) ==
    [i \in 1..n |-> ChatMessage(IF i % 2 = 1 THEN "user" ELSE "assistant",
                                <<"m", ToString(i)>>, NoData, "")]

InitHist ==
    /\ ParserIdle /\ GatewayInit /\ AuthInit /\ CoordServing
    /\ \E n \in PrefillLens :
          /\ histories = IF n = 0 THEN <<>> ELSE ("s1" :> Prefilled(n))
          /\ appended = histories
    /\ calls = [k \in Slots |-> IdleCall]
    /\ tool_registry = ServingRegistry
    /\ turns = 0
    /\ hops = MaxHops

SerialCall(sid) ==
    /\ \A k \in Slots : ~Active(calls[k])
    /\ StartCall("direct", sid, UserText(turns + 1))
    /\ UNCHANGED <<parserVars, authVars, coordVars, gatewayVars>>

NextHist ==
    \/ \E sid \in {"s1"} : SerialCall(sid)
    \/ \E k \in Slots : StepText(k)
    \/ \E k \in Slots : StepIntent(k)
    \/ \E k \in Slots : StepToolCall(k)
    \/ \E k \in Slots : StepToolAdd(k)
    \/ \E k \in Slots : StepReprompt(k)
    \/ \E k \in Slots : StepError(k)
    \/ \E k \in Slots : StepServiceEnd(k)
    \/ \E k \in Slots : StepFinish(k)
    \/ \E k \in Slots : StepRaise(k)

SpecHist == InitHist /\ [][NextHist]_vars

\* the same calls with a model that may ask for a tool in nine responses
InitHops ==
    /\ ParserIdle /\ GatewayInit /\ AuthInit /\ CoordServing
    /\ histories = <<>>
    /\ appended = <<>>
    /\ calls = [k \in Slots |-> IdleCall]
    /\ tool_registry = ServingRegistry
    /\ turns = 0
    /\ hops = 9

\* one handle_input call
OnlyCall(sid) == turns = 0 /\ SerialCall(sid)

NextHops ==
    \/ \E sid \in {"s1"} : OnlyCall(sid)
    \/ \E k \in Slots : StepText(k)
    \/ \E k \in Slots : StepIntent(k)
    \/ \E k \in Slots : StepToolCall(k)
    \/ \E k \in Slots : StepToolAdd(k)
    \/ \E k \in Slots : StepReprompt(k)
    \/ \E k \in Slots : StepError(k)
    \/ \E k \in Slots : StepServiceEnd(k)
    \/ \E k \in Slots : StepFinish(k)
    \/ \E k \in Slots : StepRaise(k)

SpecHops == InitHops /\ [][NextHops]_vars

(***************************************************************************)
(* The session gateway, WebSocketHandler.handle_connection.                *)
(***************************************************************************)
\* a function without the key x
Without(f, x) == [y \in DOMAIN f \ {x} |-> f[y]]

\* _unregister_connection (lines 89-100) on the three maps
Unregister(w) ==
    /\ connections' = Without(connections, w)
    /\ sessions' = Without(sessions, SessionId(w))
    /\ authenticated_sessions' = Without(authenticated_sessions, SessionId(w))

\* line 134: a client connects and is registered under a fresh session id
Connect(w) ==
    /\ conn[w].pc = "new"
    /\ conn' = [conn EXCEPT ![w].pc = "auth", ![w].open = TRUE]
    /\ connections' = (w :> SessionId(w)) @@ connections
    /\ sessions' = (SessionId(w) :> w) @@ sessions
    /\ UNCHANGED <<authenticated_sessions, parserVars, authVars, coordVars, orchVars>>

\* the client sends a frame; the library queues it until the handler reads
ClientSend(w) ==
    LET c == conn[w] IN
    /\ c.open /\ c.pc \in {"auth", "loop", "turn"}
    /\ c.nsent < MaxFrames
    /\ \E f \in (IF c.nsent = 0 THEN FirstFrames ELSE LoopFrames(c.nsent)) :
          conn' = [conn EXCEPT
                      ![w].inbox = Append(@, f),
                      ![w].nsent = @ + 1,
                      ![w].first = IF c.nsent = 0 THEN f ELSE @,
                      ![w].arrived = IF c.nsent > 0 /\ IsUserMessage(f)
                                     THEN Append(@, f.payload.text) ELSE @,
                      ![w].queued_in_turn = IF c.nsent > 0 /\ IsUserMessage(f) /\ c.pc = "turn"
                                            THEN @ \cup {f.payload.text} ELSE @]
    /\ UNCHANGED <<connections, sessions, authenticated_sessions, parserVars, authVars, coordVars, orchVars>>

\* the client goes away
ClientDisconnect(w) ==
    /\ conn[w].open /\ conn[w].pc \in {"auth", "loop", "turn"}
    /\ conn' = [conn EXCEPT ![w].open = FALSE]
    /\ UNCHANGED <<connections, sessions, authenticated_sessions, parserVars, authVars, coordVars, orchVars>>

\* lines 141-226: the first frame of a connected client is read and judged
HandleAuth(w) ==
    LET c == conn[w] IN
    /\ c.pc = "auth" /\ c.open /\ c.inbox # <<>>
    /\ LET r == AuthPhase(w, Head(c.inbox))
       IN  IF r.authenticated
           THEN /\ conn' = [conn EXCEPT ![w].pc = "loop", ![w].inbox = Tail(@),
                                        ![w].auth_frames = r.sends, ![w].auth_open = TRUE,
                                        ![w].authenticated = TRUE]
                /\ authenticated_sessions' =
                       (SessionId(w) :> r.session[1]) @@ authenticated_sessions
                /\ UNCHANGED <<connections, sessions>>
           \* lines 223-226 and the finally block: close with 1008, unregister
           ELSE /\ conn' = [conn EXCEPT ![w].pc = "closed", ![w].inbox = <<>>,
                                        ![w].auth_frames = r.sends, ![w].auth_open = TRUE,
                                        ![w].close_code = 1008, ![w].open = FALSE]
                /\ Unregister(w)
    /\ UNCHANGED <<parserVars, authVars, coordVars, orchVars>>

\* the client left before the handshake was over: recv() or the first send
\* raises ConnectionClosed (or nothing is sent), and the finally block
\* unregisters the connection
HandleAuthGone(w) ==
    /\ conn[w].pc = "auth" /\ ~conn[w].open
    /\ conn' = [conn EXCEPT ![w].pc = "closed", ![w].inbox = <<>>]
    /\ Unregister(w)
    /\ UNCHANGED <<parserVars, authVars, coordVars, orchVars>>

\* a loop that takes the next frame while a turn is still running
CanReceive_InTurn(w) == conn[w].pc \in {"loop", "turn"}

\* the positions of the reports of a failed adapter stream in the parts a
\* call yielded, or in the frames sent in a turn
StreamFailures(ev) ==
    {i \in DOMAIN ev :
        \/ ev[i].type = "ErrorInfo" /\ ev[i].message = "Stream parsing error"
        \/ ev[i].type = "error" /\ ev[i].payload.message = "Stream parsing error"}

\* line 230: the loop takes the next frame only when the body is over
CanReceive(w) == conn[w].pc = "loop"

\* lines 230-272: a user message is read and handle_input is started on it
RecvUserMessage(w) ==
    LET c == conn[w] IN
    /\ CanReceive(w) /\ c.inbox # <<>> /\ IsUserMessage(Head(c.inbox))
    /\ StartCall(w, SessionId(w), Head(c.inbox).payload.text)
    /\ conn' = [conn EXCEPT ![w].pc = "turn", ![w].inbox = Tail(@), ![w].turn_frames = <<>>,
                            ![w].started = Append(@, Head(c.inbox).payload.text),
                            ![w].queued_in_turn = @ \ {Head(c.inbox).payload.text},
                            ![w].started_queued = Head(c.inbox).payload.text \in c.queued_in_turn,
                            ![w].failed_before = @ \/ StreamFailures(c.turn_frames) # {}]
    /\ UNCHANGED <<connections, sessions, authenticated_sessions, parserVars, authVars, coordVars>>

\* lines 275-281: any other frame is logged, nothing is sent
RecvOtherFrame(w) ==
    LET c == conn[w] IN
    /\ CanReceive(w) /\ c.inbox # <<>> /\ ~IsUserMessage(Head(c.inbox))
    /\ conn' = [conn EXCEPT ![w].inbox = Tail(@)]
    /\ UNCHANGED <<connections, sessions, authenticated_sessions, parserVars, authVars, coordVars, orchVars>>

\* lines 298-306: the connection is closed and nothing is queued: the loop
\* ends and the connection is unregistered
LoopEnds(w) ==
    /\ conn[w].pc = "loop" /\ conn[w].inbox = <<>> /\ ~conn[w].open
    /\ conn' = [conn EXCEPT ![w].pc = "closed"]
    /\ Unregister(w)
    /\ UNCHANGED <<parserVars, authVars, coordVars, orchVars>>

Init == ParserIdle /\ OrchInit /\ GatewayInit /\ AuthInit /\ CoordServing

Next ==
    \/ \E w \in Conns : Connect(w)
    \/ \E w \in Conns : ClientSend(w)
    \/ \E w \in Conns : ClientDisconnect(w)
    \/ \E w \in Conns : HandleAuth(w)
    \/ \E w \in Conns : HandleAuthGone(w)
    \/ \E w \in Conns : RecvUserMessage(w)
    \/ \E w \in Conns : RecvOtherFrame(w)
    \/ \E w \in Conns : LoopEnds(w)
    \/ \E k \in Slots : StepText(k)
    \/ \E k \in Slots : StepIntent(k)
    \/ \E k \in Slots : StepToolCall(k)
    \/ \E k \in Slots : StepToolAdd(k)
    \/ \E k \in Slots : StepReprompt(k)
    \/ \E k \in Slots : StepError(k)
    \/ \E k \in Slots : StepServiceEnd(k)
    \/ \E k \in Slots : StepFinish(k)
    \/ \E k \in Slots : StepRaise(k)

Spec == Init /\ [][Next]_vars

(***************************************************************************)
(* The auth gateway, web_gateway.websocket_proxy_endpoint: its steps.      *)
(***************************************************************************)
\* line 161
GwAccept ==
    /\ agw.pc = "new"
    /\ agw' = [agw EXCEPT !.pc = "auth", !.open = TRUE]
    /\ UNCHANGED <<parserVars, orchVars, gatewayVars, coordVars>>

\* the client sends its first frame
GwClientSend ==
    /\ agw.pc = "auth" /\ agw.open /\ agw.first = NoFrame
    /\ \E f \in GwFirstFrames : agw' = [agw EXCEPT !.inbox = <<f>>, !.first = f]
    /\ UNCHANGED <<parserVars, orchVars, gatewayVars, coordVars>>

GwClientDisconnect ==
    /\ agw.open /\ agw.pc \in {"auth", "connecting", "bridged"}
    /\ agw' = [agw EXCEPT !.open = FALSE]
    /\ UNCHANGED <<parserVars, orchVars, gatewayVars, coordVars>>

\* lines 168-202: the first frame is judged
GwHandleAuth ==
    /\ agw.pc = "auth" /\ agw.open /\ agw.inbox # <<>>
    /\ LET r == GwAuthPhase(Head(agw.inbox))
       IN  agw' = [agw EXCEPT !.inbox = <<>>, !.handled = TRUE,
                              !.sent = r.sends, !.close_code = r.close_code,
                              !.authenticated_email = r.authenticated_email,
                              !.open = (r.close_code = 0),
                              !.pc = IF r.close_code = 0 THEN "connecting" ELSE "closed"]
    /\ UNCHANGED <<parserVars, orchVars, gatewayVars, coordVars>>

\* lines 263-264: the client left before it was judged
GwAuthGone ==
    /\ agw.pc = "auth" /\ ~agw.open
    /\ agw' = [agw EXCEPT !.pc = "closed", !.inbox = <<>>]
    /\ UNCHANGED <<parserVars, orchVars, gatewayVars, coordVars>>

\* lines 213-224 and 235-238: the deadline has not passed, the backend
\* accepts the connection, identify is sent
GwConnectOk ==
    /\ agw.pc = "connecting"
    /\ Slept(agw.delays) <= timeout_seconds
    /\ agw' = [agw EXCEPT !.pc = "bridged", !.connect_attempts = @ + 1, !.backend = "open",
                          !.to_backend = << identify_message(agw.authenticated_email) >>,
                          !.client_to_backend_task = "running",
                          !.backend_to_client_task = "running"]
    /\ UNCHANGED <<parserVars, orchVars, gatewayVars, coordVars>>

\* lines 213-233 and 265-273: the deadline has not passed and an attempt
\* fails; the last one closes the client with 1011, the others are followed
\* by a wait
GwConnectFail ==
    /\ agw.pc = "connecting"
    /\ Slept(agw.delays) <= timeout_seconds
    /\ IF agw.connect_attempts + 1 >= max_attempts
       THEN agw' = [agw EXCEPT !.connect_attempts = @ + 1, !.pc = "closed",
                               !.close_code = IF agw.open THEN 1011 ELSE @, !.open = FALSE]
       ELSE agw' = [agw EXCEPT !.connect_attempts = @ + 1,
                               !.delays = Append(@, delay(agw.connect_attempts + 1))]
    /\ UNCHANGED <<parserVars, orchVars, gatewayVars, coordVars>>

\* lines 214-217 and 265-269: the overall deadline has passed
GwConnectTimeout ==
    /\ agw.pc = "connecting"
    /\ agw' = [agw EXCEPT !.pc = "closed", !.close_code = IF agw.open THEN 1011 ELSE @,
                          !.open = FALSE]
    /\ UNCHANGED <<parserVars, orchVars, gatewayVars, coordVars>>

\* the client sends a frame after it was authenticated; the server queues it
\* until receive_text is called
GwClientFrame ==
    /\ agw.pc \in {"connecting", "bridged"} /\ agw.open
    /\ Len(agw.client_sent) < MaxRelay
    /\ \E f \in ClientBridgeFrames :
          agw' = [agw EXCEPT !.client_sent = Append(@, f), !.inbox = Append(@, f)]
    /\ UNCHANGED <<parserVars, orchVars, gatewayVars, coordVars>>

\* the backend sends a frame
GwBackendFrame ==
    /\ agw.pc = "bridged" /\ agw.backend = "open"
    /\ Len(agw.backend_sent) < MaxRelay
    /\ \E f \in BackendBridgeFrames :
          agw' = [agw EXCEPT !.backend_sent = Append(@, f), !.backend_inbox = Append(@, f)]
    /\ UNCHANGED <<parserVars, orchVars, gatewayVars, coordVars>>

\* lines 117-131, forward_to_backend: the next client frame is read and sent
\* to the backend; a frame receive_text cannot return raises, the forwarder
\* ends and its finally closes the backend connection
GwForwardToBackend ==
    /\ agw.pc = "bridged" /\ agw.backend = "open" /\ agw.inbox # <<>>
    /\ IF Head(agw.inbox).kind = "text"
       THEN agw' = [agw EXCEPT !.inbox = Tail(@), !.to_backend = Append(@, Head(agw.inbox))]
       ELSE agw' = [agw EXCEPT !.inbox = Tail(@), !.pc = "stopping", !.backend = "closed",
                               !.client_to_backend_task = "ended"]
    /\ UNCHANGED <<parserVars, orchVars, gatewayVars, coordVars>>

\* lines 117-131, forward_to_backend: the client is gone, receive_text
\* raises, the forwarder ends and its finally closes the backend connection
GwForwardToBackendEnds ==
    /\ agw.pc \in {"bridged", "stopping"} /\ agw.client_to_backend_task = "running"
    /\ ~agw.open
    /\ agw' = [agw EXCEPT !.pc = "stopping", !.backend = "closed",
                          !.client_to_backend_task = "ended"]
    /\ UNCHANGED <<parserVars, orchVars, gatewayVars, coordVars>>

\* lines 133-155, forward_to_client: the backend connection is closed, recv
\* raises, the forwarder ends and its finally closes the client connection
\* unless the client has disconnected
GwForwardToClientEnds ==
    /\ agw.pc \in {"bridged", "stopping"} /\ agw.backend_to_client_task = "running"
    /\ agw' = [agw EXCEPT !.pc = "stopping", !.backend = "closed",
                          !.backend_to_client_task = "ended",
                          !.close_code = IF agw.open THEN 1000 ELSE @, !.open = FALSE]
    /\ UNCHANGED <<parserVars, orchVars, gatewayVars, coordVars>>

\* a forwarder that sends the newest backend frame first
GwForwardToClient_Newest ==
    /\ agw.pc = "bridged" /\ agw.open /\ agw.backend_inbox # <<>>
    /\ agw' = [agw EXCEPT !.backend_inbox = SubSeq(@, 1, Len(@) - 1),
                          !.sent = Append(@, agw.backend_inbox[Len(agw.backend_inbox)])]
    /\ UNCHANGED <<parserVars, orchVars, gatewayVars, coordVars>>

\* lines 133-138, forward_to_client: the next backend frame is received and
\* sent to the client
GwForwardToClient ==
    /\ agw.pc = "bridged" /\ agw.open /\ agw.backend_inbox # <<>>
    /\ agw' = [agw EXCEPT !.backend_inbox = Tail(@), !.sent = Append(@, Head(agw.backend_inbox))]
    /\ UNCHANGED <<parserVars, orchVars, gatewayVars, coordVars>>

\* what cancelling a forwarder that is still running makes of it
Cancelled(task) == IF task = "running" THEN "cancelled" ELSE task

\* an endpoint whose cancelled forwarders run no finally
GwBridgeEnds_NoFinally ==
    /\ agw.pc = "stopping"
    /\ agw' = [agw EXCEPT !.pc = "closed", !.backend = "closed",
                          !.client_to_backend_task = Cancelled(@),
                          !.backend_to_client_task = Cancelled(@)]
    /\ UNCHANGED <<parserVars, orchVars, gatewayVars, coordVars>>

\* lines 249-261 and 275-278: asyncio.wait has returned, the forwarder still
\* running is cancelled and awaited: the finally of forward_to_client closes
\* the client connection unless the client has disconnected, the finally of
\* forward_to_backend and that of the endpoint close the backend connection
GwBridgeEnds ==
    /\ agw.pc = "stopping"
    /\ agw' = [agw EXCEPT !.pc = "closed", !.backend = "closed",
                          !.client_to_backend_task = Cancelled(@),
                          !.backend_to_client_task = Cancelled(@),
                          !.close_code = IF agw.open /\ agw.backend_to_client_task = "running"
                                         THEN 1000 ELSE @,
                          !.open = IF agw.backend_to_client_task = "running" THEN FALSE ELSE @]
    /\ UNCHANGED <<parserVars, orchVars, gatewayVars, coordVars>>

InitAuth == ParserIdle /\ OrchInit /\ GatewayInit /\ AuthInit /\ CoordServing

NextAuth ==
    \/ GwAccept
    \/ GwClientSend
    \/ GwClientDisconnect
    \/ GwHandleAuth
    \/ GwAuthGone
    \/ GwConnectOk
    \/ GwConnectFail
    \/ GwConnectTimeout
    \/ GwClientFrame
    \/ GwBackendFrame
    \/ GwForwardToBackend
    \/ GwForwardToClient
    \/ GwForwardToBackendEnds
    \/ GwForwardToClientEnds
    \/ GwBridgeEnds

SpecAuth == InitAuth /\ [][NextAuth]_vars

(***************************************************************************)
(* The tool coordinator, MCPCoordinator: its steps.                        *)
(***************************************************************************)
orchState == <<histories, appended, calls, turns, hops>>

Awaiting == {"starting", "discovering", "serving"}

\* lines 201-231: initialize() creates a supervisor task and a setup event
\* per server and waits
InitializeStart ==
    /\ initialize_call.pc = "idle"
    /\ shutdown_event' = FALSE
    /\ server_tasks' = [s \in ServerIds |-> Task("created", FALSE, FALSE, "")]
    /\ initialize_call' = [initialize_call EXCEPT !.pc = "waiting"]
    /\ UNCHANGED <<clients, tool_registry, tool_call>>
    /\ UNCHANGED <<parserVars, orchState, gatewayVars, authVars>>

\* lines 190-199: the finally of the supervisor of server_id
Finally(server_id) ==
    /\ clients' = ClientsWithout(clients, server_id, SessionOf(server_id))
    /\ tool_registry' = RegistryWithout(tool_registry, server_id)

\* lines 116-160 and 173-189: the task starts: a transport that is not
\* stdio, or a missing command, sets the setup event and ends the task; a
\* stdio server is spawned and its session initialised
SupStart(s) ==
    /\ server_tasks[s].pc = "created"
    /\ IF ServerConfig[s].transport # "stdio" \/ ServerConfig[s].command = ""
       THEN /\ server_tasks' = [server_tasks EXCEPT ![s] = Task("ended", TRUE, @.cancel_requested, "config")]
            /\ Finally(s)
       ELSE /\ server_tasks' = [server_tasks EXCEPT ![s].pc = "starting"]
            /\ UNCHANGED <<clients, tool_registry>>
    /\ UNCHANGED <<shutdown_event, initialize_call, tool_call>>
    /\ UNCHANGED <<parserVars, orchState, gatewayVars, authVars>>

\* lines 165-166: session.initialize() has returned, the session is stored
SupInitialized(s) ==
    /\ server_tasks[s].pc = "starting" /\ ~server_tasks[s].cancel_requested
    /\ clients' = (s :> SessionOf(s)) @@ clients
    /\ server_tasks' = [server_tasks EXCEPT ![s].pc = "discovering"]
    /\ UNCHANGED <<tool_registry, shutdown_event, initialize_call, tool_call>>
    /\ UNCHANGED <<parserVars, orchState, gatewayVars, authVars>>

\* lines 167-170 and 90-111: the catalog has arrived: its tools are
\* registered, the setup event is set, the task waits for the shutdown
SupCatalog(s) ==
    /\ server_tasks[s].pc = "discovering" /\ ~server_tasks[s].cancel_requested
    /\ tool_registry' = Registered(tool_registry, s, SessionOf(s))
    /\ server_tasks' = [server_tasks EXCEPT ![s].pc = "serving", ![s].setup_event = TRUE]
    /\ UNCHANGED <<clients, shutdown_event, initialize_call, tool_call>>
    /\ UNCHANGED <<parserVars, orchState, gatewayVars, authVars>>

\* lines 112-114 and 168-170: list_tools raised, which
\* _discover_tools_for_client catches: nothing is registered
SupCatalogFails(s) ==
    /\ server_tasks[s].pc = "discovering" /\ ~server_tasks[s].cancel_requested
    /\ server_tasks' = [server_tasks EXCEPT ![s].pc = "serving", ![s].setup_event = TRUE]
    /\ UNCHANGED <<clients, tool_registry, shutdown_event, initialize_call, tool_call>>
    /\ UNCHANGED <<parserVars, orchState, gatewayVars, authVars>>

\* lines 170-171: the shutdown event wakes the task, which leaves the two
\* context managers (the session is closed, the subprocess terminated)
SupShutdown(s) ==
    /\ server_tasks[s].pc = "serving" /\ ~server_tasks[s].cancel_requested
    /\ shutdown_event
    /\ server_tasks' = [server_tasks EXCEPT ![s].pc = "draining", ![s].why = "shutdown"]
    /\ UNCHANGED <<clients, tool_registry, shutdown_event, initialize_call, tool_call>>
    /\ UNCHANGED <<parserVars, orchState, gatewayVars, authVars>>

\* an await of the task raises (the subprocess exits, an IO error): the
\* context managers are left with the exception
SupCrash(s) ==
    /\ server_tasks[s].pc \in Awaiting /\ ~server_tasks[s].cancel_requested
    /\ server_tasks' = [server_tasks EXCEPT ![s].pc = "draining", ![s].why = "crash"]
    /\ UNCHANGED <<clients, tool_registry, shutdown_event, initialize_call, tool_call>>
    /\ UNCHANGED <<parserVars, orchState, gatewayVars, authVars>>

\* the cancellation requested by initialize() is delivered at the await
SupCancelled(s) ==
    /\ server_tasks[s].pc \in Awaiting /\ server_tasks[s].cancel_requested
    /\ server_tasks' = [server_tasks EXCEPT ![s].pc = "draining", ![s].why = "cancel"]
    /\ UNCHANGED <<clients, tool_registry, shutdown_event, initialize_call, tool_call>>
    /\ UNCHANGED <<parserVars, orchState, gatewayVars, authVars>>

\* a supervisor whose exception handler leaves the setup event alone
SupEnd_NoSet(s) ==
    /\ server_tasks[s].pc = "draining"
    /\ server_tasks' = [server_tasks EXCEPT ![s].pc = "ended"]
    /\ Finally(s)
    /\ UNCHANGED <<shutdown_event, initialize_call, tool_call>>
    /\ UNCHANGED <<parserVars, orchState, gatewayVars, authVars>>

\* lines 183-199: the handlers and the finally: an exception sets the
\* setup event, a cancellation does not; the session and the keys go
SupEnd(s) ==
    /\ server_tasks[s].pc = "draining"
    /\ server_tasks' = [server_tasks EXCEPT ![s].pc = "ended",
                                            ![s].setup_event = @ \/ server_tasks[s].why = "crash"]
    /\ Finally(s)
    /\ UNCHANGED <<shutdown_event, initialize_call, tool_call>>
    /\ UNCHANGED <<parserVars, orchState, gatewayVars, authVars>>

\* lines 238-266, no wait task pending: every server whose setup event is
\* set counts as successful
InitializeAllDone ==
    /\ initialize_call.pc = "waiting"
    /\ \A s \in ServerIds : server_tasks[s].setup_event
    /\ initialize_call' = [pc |-> "returned", failed_servers |-> {},
                           successful_servers |-> ServerIds]
    /\ UNCHANGED <<clients, tool_registry, server_tasks, shutdown_event, tool_call>>
    /\ UNCHANGED <<parserVars, orchState, gatewayVars, authVars>>

\* lines 232-266, the timeout of asyncio.wait has passed: the servers
\* whose setup event is not set are failed and their tasks cancelled
InitializeDeadline ==
    LET pending == {s \in ServerIds : ~server_tasks[s].setup_event}
    IN  /\ initialize_call.pc = "waiting"
        /\ pending # {}
        /\ \A s \in ServerIds : server_tasks[s].pc # "created"
        /\ server_tasks' = [s \in ServerIds |->
                               IF s \in pending
                               THEN [server_tasks[s] EXCEPT !.cancel_requested = TRUE]
                               ELSE server_tasks[s]]
        /\ initialize_call' = [pc |-> "returned", failed_servers |-> pending,
                               successful_servers |-> ServerIds \ pending]
        /\ UNCHANGED <<clients, tool_registry, shutdown_event, tool_call>>
        /\ UNCHANGED <<parserVars, orchState, gatewayVars, authVars>>

\* lines 316-324: __aexit__ sets the shutdown event and waits for the
\* task group
AexitStart ==
    /\ initialize_call.pc = "returned"
    /\ shutdown_event' = TRUE
    /\ initialize_call' = [initialize_call EXCEPT !.pc = "exiting"]
    /\ UNCHANGED <<clients, tool_registry, server_tasks, tool_call>>
    /\ UNCHANGED <<parserVars, orchState, gatewayVars, authVars>>

\* an __aexit__ that clears the maps without waiting for the tasks
AexitDone_NoWait ==
    /\ initialize_call.pc = "exiting"
    /\ clients' = <<>>
    /\ tool_registry' = <<>>
    /\ initialize_call' = [initialize_call EXCEPT !.pc = "exited"]
    /\ UNCHANGED <<server_tasks, shutdown_event, tool_call>>
    /\ UNCHANGED <<parserVars, orchState, gatewayVars, authVars>>

\* lines 325-333: every task has ended: the maps are cleared
AexitDone ==
    /\ initialize_call.pc = "exiting"
    /\ \A s \in ServerIds : server_tasks[s].pc = "ended"
    /\ clients' = <<>>
    /\ tool_registry' = <<>>
    /\ server_tasks' = [s \in ServerIds |-> Task("none", FALSE, FALSE, "")]
    /\ initialize_call' = [initialize_call EXCEPT !.pc = "exited"]
    /\ UNCHANGED <<shutdown_event, tool_call>>
    /\ UNCHANGED <<parserVars, orchState, gatewayVars, authVars>>

\* a call that passes the qualified name on to the session
Invocation_Qualified(tool_entry, qualified_tool_name, arguments) ==
    [session |-> tool_entry.client, name |-> qualified_tool_name, arguments |-> arguments]

\* line 294: client.call_tool(tool_name, arguments=arguments)
Invocation(tool_entry, qualified_tool_name, arguments) ==
    [session |-> tool_entry.client, name |-> tool_entry.name, arguments |-> arguments]

ToolArguments == {"{}", "{q:x}"}

CalledNames == {"a:b", "a:x:t", "ghost:op"}

\* lines 281-294: call_tool looks the name up; a missing name raises
\* ValueError, a registered one is called on the session of its entry
CallToolStart(qualified_tool_name, arguments) ==
    /\ initialize_call.pc \in {"returned", "exiting", "exited"}
    /\ tool_call.pc # "awaiting" /\ tool_call.made < MaxCalls
    /\ IF qualified_tool_name \notin DOMAIN tool_registry
       THEN tool_call' = [NoToolCall EXCEPT !.pc = "raised", !.error = "ValueError",
                                            !.coord_pc = initialize_call.pc,
                                            !.qualified_tool_name = qualified_tool_name,
                                            !.arguments = arguments,
                                            !.made = tool_call.made + 1]
       ELSE LET tool_entry == tool_registry[qualified_tool_name]
            IN  tool_call' = [NoToolCall EXCEPT
                                 !.pc = "awaiting",
                                 !.qualified_tool_name = qualified_tool_name,
                                 !.arguments = arguments,
                                 !.invocations = <<Invocation(tool_entry, qualified_tool_name,
                                                              arguments)>>,
                                 !.owner_pc = server_tasks[tool_entry.server_id].pc,
                                 !.coord_pc = initialize_call.pc,
                                 !.made = tool_call.made + 1]
    /\ UNCHANGED <<clients, tool_registry, server_tasks, shutdown_event, initialize_call>>
    /\ UNCHANGED <<parserVars, orchState, gatewayVars, authVars>>

\* lines 294-297: the session answers
CallToolReturns ==
    /\ tool_call.pc = "awaiting"
    /\ server_tasks[tool_call.invocations[1].session.session_of].pc = "serving"
    /\ tool_call' = [tool_call EXCEPT !.pc = "returned"]
    /\ UNCHANGED <<clients, tool_registry, server_tasks, shutdown_event, initialize_call>>
    /\ UNCHANGED <<parserVars, orchState, gatewayVars, authVars>>

\* lines 298-300: the session raises (a tool error, a closed connection)
CallToolRaises ==
    /\ tool_call.pc = "awaiting"
    /\ tool_call' = [tool_call EXCEPT !.pc = "raised", !.error = "McpError"]
    /\ UNCHANGED <<clients, tool_registry, server_tasks, shutdown_event, initialize_call>>
    /\ UNCHANGED <<parserVars, orchState, gatewayVars, authVars>>

\* time passes while the call waits for the subprocess: nothing in
\* call_tool bounds the wait
CallToolWaits ==
    /\ tool_call.pc = "awaiting"
    /\ tool_call.waited < MaxWait * timeout_ms
    /\ tool_call' = [tool_call EXCEPT !.waited = @ + timeout_ms]
    /\ UNCHANGED <<clients, tool_registry, server_tasks, shutdown_event, initialize_call>>
    /\ UNCHANGED <<parserVars, orchState, gatewayVars, authVars>>

InitCoord == ParserIdle /\ OrchIdle /\ GatewayInit /\ AuthInit /\ CoordInit

NextCoord ==
    \/ InitializeStart
    \/ \E s \in ServerIds : SupStart(s)
    \/ \E s \in ServerIds : SupInitialized(s)
    \/ \E s \in ServerIds : SupCatalog(s)
    \/ \E s \in ServerIds : SupCatalogFails(s)
    \/ \E s \in ServerIds : SupShutdown(s)
    \/ \E s \in ServerIds : SupCrash(s)
    \/ \E s \in ServerIds : SupCancelled(s)
    \/ \E s \in ServerIds : SupEnd(s)
    \/ InitializeAllDone
    \/ InitializeDeadline
    \/ AexitStart
    \/ AexitDone
    \/ \E q \in CalledNames, arguments \in ToolArguments : CallToolStart(q, arguments)
    \/ CallToolReturns
    \/ CallToolRaises
    \/ CallToolWaits

SpecCoord == InitCoord /\ [][NextCoord]_vars

\* the event loop runs a created task, and the timeout of asyncio.wait
\* expires
SpecCoordLive ==
    /\ SpecCoord
    /\ WF_vars(InitializeStart)
    /\ \A s \in ServerIds : WF_vars(SupStart(s))
    /\ WF_vars(InitializeAllDone)
    /\ WF_vars(InitializeDeadline)

(***************************************************************************)
(* Claims C1 to C10.                                                       *)
(***************************************************************************)
IsPrefix(a, b) == Len(a) <= Len(b) /\ SubSeq(b, 1, Len(a)) = a

LastN(s, n) == IF Len(s) <= n THEN s ELSE SubSeq(s, Len(s) - n + 1, Len(s))

TypePositions(ev, ty) == {i \in DOMAIN ev : ev[i].type = ty}

\* the texts of the user messages waiting in a queue of frames, in order
RECURSIVE UserTexts(_)
UserTexts(frames) ==
    IF frames = <<>> THEN <<>>
    ELSE IF IsUserMessage(Head(frames))
         THEN <<Head(frames).payload.text>> \o UserTexts(Tail(frames))
         ELSE UserTexts(Tail(frames))

C2_IntentResultReprompt ==
    \A k \in Slots :
        LET ev == calls[k].events
        IN  \A i \in TypePositions(ev, "ToolCallIntent") :
                /\ i + 1 \in DOMAIN ev =>
                       /\ ev[i + 1].type = "ToolResultData"
                       /\ ev[i + 1].tool_name = ev[i].tool_name
                /\ i + 2 \in DOMAIN ev =>
                       /\ ev[i + 2].type = "RePromptContext"
                       /\ ev[i + 2].message.role = "tool"
                       /\ ev[i + 2].message.tool_name = ev[i].tool_name
                       /\ ev[i + 2].message.data = ev[i + 1].result
                /\ calls[k].pc \in {"stream", "done"} => i + 2 \in DOMAIN ev

\* a call that made two tool calls and ended its turn
C2_Witness ==
    \E k \in Slots :
        /\ calls[k].pc = "done"
        /\ Cardinality(TypePositions(calls[k].events, "ToolCallIntent")) >= 2
        /\ calls[k].events[Len(calls[k].events)] = EndOfTurn

\* the position in ev of the j-th ToolResultData
ResultPos(ev, j) ==
    CHOOSE i \in TypePositions(ev, "ToolResultData") :
        Cardinality({m \in TypePositions(ev, "ToolResultData") : m <= i}) = j

\* C3: when call_tool fails, ToolResultData is yielded with data that holds
\* the error class and the message, then RePromptContext with the role=tool
\* message of that data (no EndOfTurn, no error of the loop's handler); the
\* message is the last of the history when it has been appended; and the model
\* is called again with a snapshot that ends with that message.
C3_ToolFailureIsData ==
    \A k \in Slots :
        LET c == calls[k]
            ev == c.events
        IN  \A j \in DOMAIN c.outcomes :
                ~c.outcomes[j].ok =>
                    LET i == ResultPos(ev, j)
                        data == [kind |-> "error",
                                 error |-> "Tool execution failed: " \o c.outcomes[j].cls,
                                 message |-> c.outcomes[j].msg]
                        tool_message == ChatMessage("tool", <<>>, data, ev[i - 1].tool_name)
                    IN  /\ ev[i] = ToolResultData(ev[i - 1].tool_name, data)
                        /\ i + 1 \in DOMAIN ev => ev[i + 1] = RePromptContext(tool_message)
                        /\ (c.pc = "reprompt_sent" /\ j = Len(c.outcomes)) =>
                               /\ HistoryOf(c.sid) # <<>>
                               /\ HistoryOf(c.sid)[Len(HistoryOf(c.sid))] = tool_message
                        /\ c.pc \in {"stream", "done"} =>
                               /\ Len(c.llm_calls) > j
                               /\ c.llm_calls[j + 1] # <<>>
                               /\ c.llm_calls[j + 1][Len(c.llm_calls[j + 1])] = tool_message

\* a turn that ended after a tool call failed and the model was called again
C3_Witness ==
    \E k \in Slots :
        /\ calls[k].pc = "done"
        /\ \E j \in DOMAIN calls[k].outcomes :
              ~calls[k].outcomes[j].ok /\ Len(calls[k].llm_calls) > j
        /\ calls[k].events[Len(calls[k].events)] = EndOfTurn

\* C4: the history of a session is never longer than max_history_len, and it
\* is the most recent max_history_len messages appended to the session, in
\* the order they were appended.
C4_HistoryIsLatestWindow ==
    \A sid \in DOMAIN histories :
        /\ Len(histories[sid]) <= max_history_len
        /\ histories[sid] = LastN(appended[sid], max_history_len)

\* a session that has had messages evicted, between two turns
C4_Witness ==
    /\ \A k \in Slots : ~Active(calls[k])
    /\ \E sid \in DOMAIN histories :
          /\ Len(appended[sid]) > max_history_len + 1
          /\ Len(histories[sid]) = max_history_len

SegEvent(seg) ==
    IF seg.kind = "prose" THEN TextChunk(seg.text)
    ELSE LET v == (CHOOSE d \in JsonDocs : d.text = seg.text).value
         IN  ToolCallIntent(v.tool, v.arguments)

ExpectedEvents(segs) == [i \in 1..Len(segs) |-> SegEvent(segs[i])]

\* C5: when the stream has ended, whatever the fragmentation was, the parts
\* yielded are one TextChunk per prose segment and one ToolCallIntent per
\* blob, in source order (so no delimiter of a blob was yielded as text).
C5_RoundTrip == p_pc = "done" => p_state.out = ExpectedEvents(p_segs)

\* a text with prose and a blob, read to its end, of which some fragment
\* ended inside a delimiter of a blob
C5_Witness ==
    /\ p_pc = "done"
    /\ p_cut
    /\ \E i, j \in DOMAIN p_segs : p_segs[i].kind = "prose" /\ p_segs[j].kind = "blob"

\* C6: no two handle_input calls for the same session are in progress at the
\* same time.
C6_NoInterleaving ==
    \A j, k \in Slots :
        (j # k /\ Active(calls[j]) /\ Active(calls[k])) => calls[j].sid # calls[k].sid

\* C7: on a connection in its message loop, at most one handle_input call is
\* in progress, and only during a turn; the messages whose processing has
\* started are the first messages that arrived, in arrival order; and every
\* message that arrived and has not been started is still waiting, in order.
C7_OneAtATimeInOrder ==
    \A w \in Conns :
        LET mine == {k \in Slots : Active(calls[k]) /\ calls[k].owner = w}
        IN  /\ Cardinality(mine) <= 1
            /\ mine # {} => conn[w].pc = "turn"
            /\ IsPrefix(conn[w].started, conn[w].arrived)
            /\ conn[w].pc \in {"loop", "turn"} =>
                   conn[w].arrived = conn[w].started \o UserTexts(conn[w].inbox)

\* a message that arrived during a turn, whose own turn started afterwards
C7_Witness ==
    \E w \in Conns :
        /\ Len(conn[w].started) >= 2
        /\ conn[w].started_queued
        /\ conn[w].pc = "turn"

\* C8: a first frame of type identify with a known email, read from a client
\* that is connected, is accepted: the connection is authenticated.
C8_IdentifyAccepted ==
    \A w \in Conns :
        (/\ conn[w].auth_open
         /\ conn[w].first.json
         /\ conn[w].first.type = "identify"
         /\ conn[w].first.email \in DOMAIN authorized_users)
            => conn[w].authenticated

\* the first frame carries the credentials of a known user
ValidCredentials(f) ==
    /\ f.json
    /\ f.type = "auth"
    /\ f.email \in DOMAIN authorized_users
    /\ "hashed_password" \in authorized_users[f.email].keys
    /\ authorized_users[f.email].hashed_password = "bcrypt:" \o f.password

Identified(w) == conn[w].auth_open /\ ValidCredentials(conn[w].first)

\* C9: for a connection whose identification has not succeeded, no
\* handle_input call has been made, no history exists for its session and no
\* authenticated-session record exists.
C9_NothingUnlessIdentified ==
    \A w \in Conns :
        ~Identified(w) =>
            /\ \A k \in Slots : calls[k].owner # w
            /\ conn[w].started = <<>>
            /\ SessionId(w) \notin DOMAIN histories
            /\ SessionId(w) \notin DOMAIN authenticated_sessions

\* a connection refused and closed after its client had also sent a message
C9_Witness ==
    \E w \in Conns :
        /\ conn[w].pc = "closed"
        /\ conn[w].close_code = 1008
        /\ conn[w].arrived # <<>>

\* C10: a connection whose identification failed, with its client connected,
\* was sent exactly one failure frame and was closed with code 1008.
C10_OneFailureFrameThenClose ==
    \A w \in Conns :
        (conn[w].auth_open /\ ~conn[w].authenticated) =>
            /\ Len(conn[w].auth_frames) = 1
            /\ conn[w].auth_frames[1].type = "auth_failed"
            /\ conn[w].close_code = 1008

(***************************************************************************)
(* Claims C11 to C14: the auth gateway, the frames of a turn, a failed     *)
(* stream.                                                                 *)
(***************************************************************************)
\* the first frame is an auth frame whose password verifies against the
\* stored hash of its email
GwValidCredentials(f) ==
    /\ f.json /\ f.isdict /\ f.type = "auth"
    /\ f.email.t = "str" /\ f.password.t = "str"
    /\ f.email.v \in DOMAIN AUTHORIZED_USER_HASHES
    /\ AUTHORIZED_USER_HASHES[f.email.v] = "bcrypt:" \o f.password.v

\* C11: the auth gateway tries the backend only after a first frame with
\* verified credentials, and a first frame without them is answered with
\* exactly one auth_fail frame and close code 1008, with no attempt on the
\* backend.
C11_AuthBeforeBackend ==
    /\ agw.connect_attempts > 0 => GwValidCredentials(agw.first)
    /\ (agw.handled /\ ~GwValidCredentials(agw.first)) =>
           /\ Len(agw.sent) = 1
           /\ agw.sent[1].type = "auth_fail"
           /\ agw.close_code = 1008
           /\ agw.connect_attempts = 0
           /\ agw.backend = "none"

\* the frame type the gateway is said to send for a part
FrameTypeOf(part) ==
    CASE part.type = "TextChunk" -> "text"
      [] part.type = "ToolCallIntent" -> "status"
      [] part.type = "ToolResultData" -> "tool_result"
      [] part.type = "RePromptContext" -> "re_prompt_context"
      [] part.type = "ErrorInfo" -> "error"
      [] part.type = "EndOfTurn" -> "end"

\* C12: while a turn runs for a connected client, the frames sent to it in
\* the turn are, one for one and in order, the frames of the parts that
\* handle_input has yielded: text, status, tool_result, re_prompt_context,
\* error, end.
C12_FramesAreImagesOfEvents ==
    \A k \in Slots :
        LET c == calls[k]
        IN  (Active(c) /\ c.owner \in Conns /\ conn[c.owner].pc = "turn") =>
                /\ Len(conn[c.owner].turn_frames) = Len(c.events)
                /\ \A i \in DOMAIN c.events :
                       conn[c.owner].turn_frames[i].type = FrameTypeOf(c.events[i])

FirstSnapshot(c) == c.llm_calls[1]

\* C14: a handle_input call whose adapter stream failed has yielded the
\* ErrorInfo and then nothing but the closing EndOfTurn, has not called the
\* model after the failure, and the session history still holds everything
\* the model was last given, the user message of the turn included; a later
\* call on the same session is given that history plus its own user message.
C14_StreamFailureEndsTurn ==
    \A k \in Slots :
        LET c == calls[k]
            ev == c.events
        IN  /\ (c.owner \in Conns /\ conn[c.owner].failed_before /\ Active(c)) =>
                   /\ Len(FirstSnapshot(c)) >= 2
                   /\ IsPrefix(FirstSnapshot(c), AppendedTo(c.sid))
                   /\ FirstSnapshot(c)[Len(FirstSnapshot(c))] =
                          ChatMessage("user", conn[c.owner].started[Len(conn[c.owner].started)],
                                      NoData, "")
            /\ \A i \in StreamFailures(ev) :
                /\ i = Len(ev) \/ (i + 1 = Len(ev) /\ ev[i + 1] = EndOfTurn)
                /\ c.pc = "done" => ev[Len(ev)] = EndOfTurn
                /\ Len(c.llm_calls) = 1 + Cardinality(TypePositions(ev, "RePromptContext"))
                /\ IsPrefix(c.llm_calls[Len(c.llm_calls)], HistoryOf(c.sid))
                /\ FirstSnapshot(c)[Len(FirstSnapshot(c))].role = "user"

\* a turn of the session failed on its stream earlier, and a later turn of
\* the same session has run to its EndOfTurn without a failure
C14_Witness ==
    \E k \in Slots :
        /\ calls[k].owner \in Conns /\ conn[calls[k].owner].failed_before
        /\ calls[k].pc = "done"
        /\ TypePositions(calls[k].events, "ErrorInfo") = {}
        /\ calls[k].events[Len(calls[k].events)] = EndOfTurn

(***************************************************************************)
(* Claims C15 to C20: the tool coordinator.                                *)
(***************************************************************************)
OwnedBy(s) == {q \in DOMAIN tool_registry : tool_registry[q].server_id = s}

\* C15: a server whose supervisor task has ended owns no entry of the
\* registry and has no session in the clients map; every entry is keyed by
\* the id of its server, a colon and a name of that server's catalog, and
\* its server has received its catalog.
C15_EndedServerOwnsNothing ==
    /\ \A s \in ServerIds :
           server_tasks[s].pc = "ended" => (OwnedBy(s) = {} /\ s \notin DOMAIN clients)
    /\ \A q \in DOMAIN tool_registry :
           LET e == tool_registry[q]
           IN  /\ q = QualifiedName(e.server_id, e.name)
               /\ e.name \in Catalog(e.server_id)
               /\ server_tasks[e.server_id].pc \in {"serving", "draining"}
               /\ server_tasks[e.server_id].setup_event \/ server_tasks[e.server_id].pc = "serving"

\* a server whose entry was found by a call has ended since, by its own
\* finally, while another server still has its entries
C15_Witness ==
    /\ tool_call.invocations # <<>>
    /\ server_tasks[tool_call.invocations[1].session.session_of].pc = "ended"
    /\ initialize_call.pc \in {"returned", "exiting"}
    /\ tool_registry # <<>>

\* the servers that are set up and whose task has not been asked to leave
Ready(s) ==
    /\ server_tasks[s].pc = "serving"
    /\ ~shutdown_event
    /\ ~server_tasks[s].cancel_requested

\* C16: initialize() returns; when it has, every server whose setup event
\* was not set by the deadline is in failed_servers and its supervisor is
\* cancelled, and the end of a cancelled supervisor leaves every entry of a
\* server that is ready where it was.
C16_InitializeReturnsOthersUsable ==
    /\ <>(initialize_call.pc \notin {"idle", "waiting"})
    /\ [](\A s \in ServerIds :
             /\ (initialize_call.pc = "returned" /\ s \in initialize_call.failed_servers) =>
                    (server_tasks[s].cancel_requested /\ server_tasks[s].pc # "serving")
             /\ (initialize_call.pc = "returned" /\ ~server_tasks[s].setup_event) =>
                    s \in initialize_call.failed_servers)
    /\ [][\A c \in ServerIds, s \in ServerIds :
             (/\ server_tasks[c].pc = "draining" /\ server_tasks[c].why = "cancel"
              /\ server_tasks'[c].pc = "ended"
              /\ Ready(s)) =>
                 /\ OwnedBy(s) \subseteq DOMAIN tool_registry'
                 /\ s \in DOMAIN clients']_vars

\* C17: a call_tool that found its entry has called the session exactly
\* once, the session is that of the server whose id, a colon and the name
\* passed make up the qualified name, the arguments are those of the
\* caller, and a call that found no entry has called no session.
C17_OneCallOnOwnersSession ==
    /\ tool_call.pc \in {"awaiting", "returned"} \/ tool_call.error = "McpError" =>
           /\ Len(tool_call.invocations) = 1
           /\ LET inv == tool_call.invocations[1]
              IN  /\ inv.session.session_of \in ServerIds
                  /\ inv.session = SessionOf(inv.session.session_of)
                  /\ inv.name \in Catalog(inv.session.session_of)
                  /\ tool_call.qualified_tool_name =
                         QualifiedName(inv.session.session_of, inv.name)
                  /\ inv.arguments = tool_call.arguments
    /\ tool_call.error = "ValueError" => tool_call.invocations = <<>>

\* a call for a tool of the server whose id holds a colon has returned
C17_Witness ==
    /\ tool_call.pc = "returned"
    /\ tool_call.qualified_tool_name = "a:x:t"
    /\ tool_call.arguments = "{q:x}"

\* C18: the ToolResultData yielded for a tool that is not in the registry
\* carries data.error = "ToolNotFound", so does the role=tool message
\* appended for it, and a RePromptContext follows.
C18_ToolNotFoundData ==
    \A k \in Slots :
        LET ev == calls[k].events
        IN  \A i \in TypePositions(ev, "ToolResultData") :
                ev[i].tool_name \notin DOMAIN tool_registry =>
                    /\ ev[i].result.kind = "error"
                    /\ ev[i].result.error = "ToolNotFound"
                    /\ i + 1 \in DOMAIN ev =>
                           /\ ev[i + 1].type = "RePromptContext"
                           /\ ev[i + 1].message.data.error = "ToolNotFound"

\* C19: a call_tool whose entry was found while its server was not set up
\* and waiting (it was leaving, or the shutdown was signalled) has failed
\* with ToolUnavailable and has called no session.
C19_NotReadyIsUnavailable ==
    (tool_call.owner_pc \notin {"", "serving"}) =>
        /\ tool_call.pc = "raised"
        /\ tool_call.error = "ToolUnavailable"
        /\ tool_call.invocations = <<>>

\* C20: a call_tool never waits for its subprocess longer than the
\* per-call timeout: once timeout_ms has passed it has ended.
C20_CallEndsAtTimeout ==
    tool_call.pc = "awaiting" => tool_call.waited <= timeout_ms

C22_OtherServersUntouched ==
    [][\A c \in ServerIds :
          (server_tasks[c].pc # "ended" /\ server_tasks'[c].pc = "ended") =>
              \A s \in ServerIds \ {c} :
                  /\ \A q \in OwnedBy(s) :
                         q \in DOMAIN tool_registry' /\ tool_registry'[q] = tool_registry[q]
                  /\ s \in DOMAIN clients => (s \in DOMAIN clients' /\ clients'[s] = clients[s])
                  /\ server_tasks'[s] = server_tasks[s]]_vars

\* C23: once the handler of a connection has ended, none of the
\* gateway's maps holds its websocket or its session id, and the
\* orchestrator holds no history under its session id.
C23_NothingKeptAfterClose ==
    \A w \in Conns :
        conn[w].pc = "closed" =>
            /\ w \notin DOMAIN connections
            /\ SessionId(w) \notin DOMAIN sessions
            /\ SessionId(w) \notin DOMAIN authenticated_sessions
            /\ SessionId(w) \notin DOMAIN histories

\* C24: a handle_input that is in flight for a connection whose client has
\* disconnected starts no model call and no tool call.
C24_NoWorkAfterDisconnect ==
    [][\A k \in Slots :
          (Active(calls[k]) /\ calls[k].owner \in Conns /\ ~conn[calls[k].owner].open) =>
              /\ calls'[k].llm_calls = calls[k].llm_calls
              /\ calls'[k].outcomes = calls[k].outcomes]_vars

\* C25: when the message loop takes a frame that is not a well-formed
\* message frame, it sends one error frame to the client and goes on with
\* the loop, the connection open.
C25_ErrorFrameForOtherFrames ==
    [][\A w \in Conns :
          (/\ conn[w].pc = "loop" /\ conn[w].open
           /\ conn[w].inbox # <<>> /\ ~IsUserMessage(Head(conn[w].inbox))
           /\ conn'[w].inbox = Tail(conn[w].inbox)) =>
              /\ Len(conn'[w].turn_frames) = Len(conn[w].turn_frames) + 1
              /\ conn'[w].turn_frames[Len(conn'[w].turn_frames)].type = "error"
              /\ conn'[w].pc = "loop" /\ conn'[w].open]_vars

\* what one segment of a text of TailSegLists is parsed to
TailEvent(seg) ==
    IF seg.kind = "prose" THEN TextChunk(seg.text)
    ELSE IF seg.kind = "open" THEN TextChunk(tool_start_delimiter \o seg.text)
    ELSE IF seg.text = NotJson THEN ErrorInfo("Failed to parse tool call JSON", NotJson)
    ELSE SegEvent(seg)

TailEvents(segs) == [i \in 1..Len(segs) |-> TailEvent(segs[i])]

IsOpenEnded(segs) == segs # <<>> /\ segs[Len(segs)].kind = "open"

\* C26: for a response with no tool blob, every fragment the adapter yields
\* is emitted at once as one TextChunk carrying that fragment's text.
C26_OneChunkPerFragment ==
    [][(/\ p_pc = "reading"
        /\ p_rest' # p_rest
        /\ \A i \in DOMAIN p_segs : p_segs[i].kind = "prose")
       => p_state'.out = Append(p_state.out,
                                TextChunk(SubSeq(p_rest, 1, Len(p_rest) - Len(p_rest'))))]_vars

\* C27: when the stream has ended, a delimited blob that is not JSON has
\* yielded one ErrorInfo and no ToolCallIntent, and the segments after its end
\* delimiter were parsed as they are anywhere else.
C27_BadBlobOneError ==
    (/\ p_pc = "done"
     /\ ~IsOpenEnded(p_segs)
     /\ \E i \in DOMAIN p_segs : p_segs[i] = Blob(NotJson))
    => p_state.out = TailEvents(p_segs)

\* a blob that is not JSON, followed by a tool call, read to the end
C27_Witness ==
    /\ p_pc = "done"
    /\ \E i \in DOMAIN p_segs :
          /\ p_segs[i] = Blob(NotJson)
          /\ i < Len(p_segs)
          /\ p_segs[i + 1] = Blob(Doc_ab_text)
    /\ \E i \in DOMAIN p_state.out : p_state.out[i].type = "ErrorInfo"

\* C28: when the text ends with a start delimiter that no end delimiter
\* follows, the end of the stream yields the buffer from that start delimiter
\* on as one last TextChunk, with no ToolCallIntent and no ErrorInfo for it;
\* when the buffer is empty at the end no TextChunk is added; and no
\* TextChunk is ever empty.
C28_UnterminatedBlobIsText ==
    /\ (p_pc = "done" /\ IsOpenEnded(p_segs))
       => p_state.out = Append(TailEvents(SubSeq(p_segs, 1, Len(p_segs) - 1)),
                               TextChunk(tool_start_delimiter \o p_segs[Len(p_segs)].text))
    /\ (p_pc = "done" /\ p_segs = <<>>) => p_state.out = <<>>
    /\ (p_pc = "done" /\ p_segs # <<>> /\ p_segs[Len(p_segs)].kind = "blob")
       => p_state.out[Len(p_state.out)].type # "TextChunk"
    /\ \A i \in DOMAIN p_state.out :
          p_state.out[i].type = "TextChunk" => p_state.out[i].content # <<>>

\* a blob that is not JSON, then an unterminated blob, read to the end
C28_Witness ==
    /\ p_pc = "done"
    /\ Len(p_segs) >= 2
    /\ p_segs[Len(p_segs)] = Open(<<"x">>)
    /\ p_segs[Len(p_segs) - 1].kind = "blob"
    /\ p_state.out[Len(p_state.out)] = TextChunk(tool_start_delimiter \o <<"x">>)

\* C29: the first frame the backend gets is the identify frame with the
\* email whose password was verified; the frames it gets after that are the
\* frames the client sent after its auth frame, unchanged and in order, and
\* the frames the client gets after auth_success are the frames the backend
\* sent, unchanged and in order; while the bridge runs every frame read from
\* the client has been sent to the backend.
C29_BridgeRelaysInOrder ==
    /\ agw.to_backend # <<>> =>
          /\ GwValidCredentials(agw.first)
          /\ Head(agw.to_backend) = [type |-> "identify", email |-> agw.first.email.v]
          /\ IsPrefix(Tail(agw.to_backend), agw.client_sent)
    /\ agw.backend_sent # <<>> =>
          /\ Head(agw.sent) = [type |-> "auth_success"]
          /\ IsPrefix(Tail(agw.sent), agw.backend_sent)
    /\ agw.pc = "bridged" =>
          /\ Len(agw.to_backend) - 1 + Len(agw.inbox) = Len(agw.client_sent)
          /\ Len(agw.sent) - 1 + Len(agw.backend_inbox) = Len(agw.backend_sent)

\* two frames went each way, the client's first one sent while the gateway
\* was still connecting to the backend
C29_Witness ==
    /\ agw.to_backend = << [type |-> "identify", email |-> "tony"],
                           TextFrame("m1"), TextFrame("m2") >>
    /\ agw.sent = << [type |-> "auth_success"], TextFrame("r2"), TextFrame("r1") >>
    /\ agw.connect_attempts > 1

\* the prompts of the users of authorized_users
SessionPrompts == {FormatTemplate(authorized_users[e].prompt_addition) : e \in DOMAIN authorized_users}

\* C30: for every model call, whatever the session's prompt, the contents
\* of the request start with a user entry holding the compiled system prompt
\* and a model entry acknowledging it, and the history follows them.
C30_SystemPromptFirst ==
    \A k \in Slots : \A j \in DOMAIN calls[k].llm_calls : \A sp \in SessionPrompts :
        LET contents == RequestContents(sp, calls[k].llm_calls[j])
        IN  /\ Len(contents) >= 2
            /\ contents[1].role = "user"
            /\ contents[1] = ContentDict("user", _compile_system_prompt(sp))
            /\ contents[2].role = "model"
            /\ contents[2] = ContentDict("model", <<"Understood. I will follow these instructions.">>)
            /\ Len(contents) >= 2 + Len(SelectSeq(calls[k].llm_calls[j],
                                                  LAMBDA msg : msg.role \in {"user", "assistant"}))

(***************************************************************************)
(* Claims C31 to C40.                                                      *)
(***************************************************************************)
BadKeys == {"additionalProperties", "$schema"}

\* no bad key at the top level, nor in an entry of properties
Sanitised(d) ==
    /\ \A k \in BadKeys : ~HasKey(d, k)
    /\ (HasKey(d, "properties") /\ ValueAt(d, "properties").isdict)
       => \A q \in ValueAt(d, "properties").items : \A k \in BadKeys : ~HasKey(q.value, k)

\* C31: the result of a sanitation has no additionalProperties and no $schema
\* key at the top level or inside an entry of properties, and sanitising it
\* again returns it unchanged.
C31_SanitationIdempotent ==
    /\ schema_call.pc \in {"once", "twice"} => Sanitised(schema_call.once)
    /\ schema_call.pc = "twice" => schema_call.twice = schema_call.once

\* a schema with the keys at the top level and inside an entry, sanitised
\* twice
C31_Witness ==
    /\ schema_call.pc = "twice"
    /\ HasKey(schema_call.mcp_schema, "$schema")
    /\ HasKey(schema_call.mcp_schema, "properties")
    /\ \E q \in ValueAt(schema_call.mcp_schema, "properties").items :
          HasKey(q.value, "additionalProperties") /\ HasKey(q.value, "type")
    /\ schema_call.once # schema_call.mcp_schema

HistoryAfter(sid) == IF sid \in DOMAIN histories' THEN histories'[sid] ELSE <<>>

\* C32: a step of a handle_input call leaves the history of every other
\* session as it was, entry and content, and the history it hands to the
\* model is the history of its own session.
C32_OtherHistoriesUntouched ==
    [][\A k \in Slots :
          calls'[k] # calls[k] =>
             /\ \A sid \in DirectSessions \ {calls'[k].sid} :
                   /\ (sid \in DOMAIN histories') = (sid \in DOMAIN histories)
                   /\ HistoryAfter(sid) = HistoryOf(sid)
             /\ Len(calls'[k].llm_calls) > Len(calls[k].llm_calls) =>
                   calls'[k].llm_calls[Len(calls'[k].llm_calls)] = HistoryAfter(calls'[k].sid)]_vars

\* calls of two sessions are in progress at once, each with a history
C32_Witness ==
    \E j, k \in Slots :
        /\ Active(calls[j]) /\ Active(calls[k])
        /\ calls[j].sid = "s1" /\ calls[k].sid = "s2"
        /\ Len(calls[j].llm_calls) = 2
        /\ HistoryOf("s1") # <<>> /\ HistoryOf("s2") # <<>>

\* C33: when initialize() has returned, a server whose supervisor ended
\* at its start (a transport that is not stdio, a missing command) is in
\* failed_servers, is not in successful_servers, and owns no registry entry.
C33_FailedStartReported ==
    \A s \in ServerIds :
        (initialize_call.pc = "returned" /\ server_tasks[s].why = "config") =>
            /\ s \in initialize_call.failed_servers
            /\ s \notin initialize_call.successful_servers
            /\ OwnedBy(s) \cap DOMAIN tool_registry = {}

\* C34: when the stream has ended, a blob has yielded a ToolCallIntent only
\* if it is an object whose tool is a string and whose arguments is an
\* object, and every other blob has yielded an ErrorInfo whose details are
\* the text of the blob.
C34_IntentOnlyForTypedBlob ==
    p_pc = "done" =>
        /\ Len(p_state.out) = Len(p_segs)
        /\ \A i \in DOMAIN p_segs :
              p_segs[i].kind = "blob" =>
                 IF p_segs[i].text = Doc_ab_text
                 THEN p_state.out[i].type = "ToolCallIntent"
                 ELSE /\ p_state.out[i].type = "ErrorInfo"
                      /\ p_state.out[i].details = p_segs[i].text

\* C35: a handle_input call performs at most 8 tool hops.
C35_AtMostEightHops ==
    \A k \in Slots : Cardinality(TypePositions(calls[k].events, "ToolResultData")) <= 8

\* the text of the TextChunks yielded since the model was last called
RECURSIVE ResponseText(_)
ResponseText(ev) ==
    IF ev = <<>> THEN <<>>
    ELSE LET last == ev[Len(ev)]
             front == SubSeq(ev, 1, Len(ev) - 1)
         IN  IF last.type = "RePromptContext" THEN <<>>
             ELSE IF last.type = "TextChunk" THEN ResponseText(front) \o last.content
             ELSE ResponseText(front)

AppendedAfter(sid) == IF sid \in DOMAIN appended' THEN appended'[sid] ELSE <<>>

\* C36: a step that appends an assistant message is the step that yields a
\* ToolCallIntent or the final EndOfTurn, the content of the message is the
\* text of the TextChunks yielded for the current response, in order, and it
\* is not empty; and a step that yields a ToolCallIntent or the final
\* EndOfTurn after such text appends that message.
C36_AssistantMessageIsYieldedText ==
    [][\A k \in Slots :
          calls'[k] # calls[k] =>
             LET sid == calls[k].sid
                 old == AppendedTo(sid)
                 new == AppendedAfter(sid)
                 text == ResponseText(calls[k].events)
                 yields(t) == /\ Len(calls'[k].events) = Len(calls[k].events) + 1
                              /\ calls'[k].events[Len(calls'[k].events)].type = t
                 flushed == /\ Len(new) = Len(old) + 1
                            /\ new[Len(new)] = ChatMessage("assistant", text, NoData, "")
             IN  /\ (Active(calls[k]) /\ Len(new) > Len(old) /\ new[Len(new)].role = "assistant")
                    => /\ flushed
                       /\ text # <<>>
                       /\ yields("ToolCallIntent") \/ yields("EndOfTurn")
                 /\ (Active(calls[k]) /\ text # <<>>
                     /\ (yields("ToolCallIntent") \/ yields("EndOfTurn")))
                    => flushed]_vars

\* an assistant message made of two TextChunks with an ErrorInfo between
\* them has been appended
C36_Witness ==
    \E k \in Slots :
        /\ calls[k].pc = "done"
        /\ \E i \in DOMAIN calls[k].events :
              /\ i + 2 <= Len(calls[k].events)
              /\ calls[k].events[i].type = "TextChunk"
              /\ calls[k].events[i + 1].type = "ErrorInfo"
              /\ calls[k].events[i + 2].type = "TextChunk"
        /\ \E j \in DOMAIN AppendedTo(calls[k].sid) :
              AppendedTo(calls[k].sid)[j] = ChatMessage("assistant", <<"a", "b">>, NoData, "")

\* C37: in what a call yields, a ToolCallIntent is followed by
\* ToolResultData and RePromptContext and by nothing else of its response:
\* whatever is yielded after the n-th RePromptContext was yielded after the
\* model had been called n + 1 times; and between the ToolCallIntent and the
\* next call of the model only the tool message is written to history.
C37_NothingAfterFirstIntent ==
    /\ [](\A k \in Slots :
             LET ev == calls[k].events
             IN  \A i \in DOMAIN ev :
                    /\ Len(calls[k].llm_calls) >=
                          1 + Cardinality({j \in 1..(i - 1) : ev[j].type = "RePromptContext"})
                    /\ (ev[i].type = "ToolCallIntent" /\ i + 1 <= Len(ev))
                       => ev[i + 1].type = "ToolResultData"
                    /\ (ev[i].type = "ToolCallIntent" /\ i + 2 <= Len(ev))
                       => ev[i + 2].type = "RePromptContext")
    /\ [][\A k \in Slots :
             (/\ calls'[k] # calls[k]
              /\ calls[k].events # <<>>
              /\ calls[k].events[Len(calls[k].events)].type \in {"ToolCallIntent", "ToolResultData"}
              /\ Len(AppendedAfter(calls[k].sid)) > Len(AppendedTo(calls[k].sid)))
             => AppendedAfter(calls[k].sid) =
                   Append(AppendedTo(calls[k].sid), calls'[k].tool_result_message)]_vars

\* a call has ended whose first response held text after its tool call: the
\* text "d" was in the response and is neither yielded nor in the history
C37_Witness ==
    \E k \in Slots :
        /\ calls[k].pc = "done"
        /\ Len(calls[k].llm_calls) = 2
        /\ calls[k].events[1] = TextChunk(<<"o", "k", "\n">>)
        /\ calls[k].events[2].type = "ToolCallIntent"
        /\ \A i \in DOMAIN calls[k].events : calls[k].events[i] # TextChunk(<<"d">>)
        /\ \A j \in DOMAIN AppendedTo(calls[k].sid) :
              AppendedTo(calls[k].sid)[j].role = "assistant"
              => AppendedTo(calls[k].sid)[j].content # <<"d">>

\* C38: a supervisor task that has ended, and was not ended by a
\* cancellation, has its setup event set; so when initialize() gives up
\* waiting and reports servers as failed, none of their tasks had ended.
C38_EndedTaskHasSetEvent ==
    /\ [](\A s \in DOMAIN server_tasks :
             (server_tasks[s].pc = "ended" /\ server_tasks[s].why # "cancel")
             => server_tasks[s].setup_event)
    /\ [][(initialize_call.pc = "waiting" /\ initialize_call'.pc = "returned")
          => \A s \in initialize_call'.failed_servers :
                server_tasks[s].pc # "ended"]_vars

\* a task has ended on an exception with its setup event set, while
\* initialize() is still waiting, for another server only
C38_Witness ==
    /\ initialize_call.pc = "waiting"
    /\ \E s, t \in DOMAIN server_tasks :
          /\ server_tasks[s].pc = "ended"
          /\ server_tasks[s].why = "crash"
          /\ server_tasks[s].setup_event
          /\ ~server_tasks[t].setup_event

\* C39: once a forwarding direction of the Auth Gateway has ended and the
\* endpoint has finished, the other direction is not running any more, and
\* the backend connection and the client connection are both closed.
C39_BothSidesClosed ==
    (/\ agw.pc = "closed"
     /\ "ended" \in {agw.client_to_backend_task, agw.backend_to_client_task})
    => /\ "running" \notin {agw.client_to_backend_task, agw.backend_to_client_task}
       /\ agw.backend = "closed"
       /\ ~agw.open

\* forward_to_backend ended on a frame it could not read while the client
\* was connected: forward_to_client was cancelled and closed the client
C39_Witness ==
    /\ agw.pc = "closed"
    /\ agw.client_to_backend_task = "ended"
    /\ agw.backend_to_client_task = "cancelled"
    /\ agw.close_code = 1000
    /\ agw.backend = "closed"

\* C40: the Auth Gateway makes at most 10 connection attempts; the wait
\* after the n-th failed attempt is the smaller of 2^(n-1) and 10 seconds;
\* and when it gives up connecting it has sent the backend nothing, no
\* backend connection exists and a client still connected is closed with
\* code 1011.
C40_BoundedRetries ==
    /\ [](/\ agw.connect_attempts <= 10
          /\ Len(agw.delays) <= agw.connect_attempts
          /\ agw.pc = "connecting" => Len(agw.delays) = agw.connect_attempts
          /\ \A n \in DOMAIN agw.delays :
                agw.delays[n] = IF 2^(n - 1) < 10 THEN 2^(n - 1) ELSE 10)
    /\ [][(agw.pc = "connecting" /\ agw'.pc = "closed")
          => /\ agw'.to_backend = <<>>
             /\ agw'.backend = "none"
             /\ ~agw'.open
             /\ agw.open => agw'.close_code = 1011]_vars

\* the gateway has given up after waits of 1, 2, 4, 8 and 10 seconds and
\* has closed the client with 1011, having sent the backend nothing
C40_Witness ==
    /\ agw.pc = "closed"
    /\ agw.close_code = 1011
    /\ Len(agw.delays) >= 5
    /\ SubSeq(agw.delays, 1, 5) = <<1, 2, 4, 8, 10>>
    /\ agw.to_backend = <<>>

====
